---- MODULE Spec2Model ----
(***************************************************************************)
(* Underwriting rules engine and loan sizing engine of the repository:     *)
(* src/loan_sizing_engine.py (LoanSizingEngine), src/underwriting_analyzer *)
(* .py (UnderwritingAnalyzer) and the summary builder of                   *)
(* src/underwriting_output.py.                                             *)
(*                                                                         *)
(* Python floats are modelled by exact rationals [n |-> .., d |-> ..] in   *)
(* lowest terms (d > 0).  Two sentinels use d = 0: None (the Python None)  *)
(* and Inf (float('inf')).                                                 *)
(***************************************************************************)
EXTENDS Integers, Sequences, FiniteSets, TLC

(***************************************************************************)
(* Exact arithmetic standing for the float arithmetic of the source.       *)
(***************************************************************************)
Abs(x) == IF x < 0 THEN -x ELSE x

RECURSIVE GCD(_, _)
GCD(a, b) == IF b = 0 THEN a ELSE GCD(b, a % b)

None == [n |-> 0, d |-> 0]
Inf == [n |-> 1, d |-> 0]

R(a, b) ==
    LET g == GCD(Abs(a), Abs(b))
        s == IF b < 0 THEN -1 ELSE 1
    IN  [n |-> s * (a \div g), d |-> s * (b \div g)]

I(a) == [n |-> a, d |-> 1]

Zero == I(0)

IsNum(x) == x.d > 0

\* floor of a finite rational (\div rounds towards minus infinity)
Floor(x) == x.n \div x.d

\* x < y, comparing integer parts first so that no product overflows
Lt(x, y) ==
    IF x = Inf THEN FALSE
    ELSE IF y = Inf THEN TRUE
    ELSE IF Floor(x) # Floor(y) THEN Floor(x) < Floor(y)
    ELSE (x.n % x.d) * y.d < (y.n % y.d) * x.d

Le(x, y) == x = y \/ Lt(x, y)
Gt(x, y) == Lt(y, x)
Ge(x, y) == Le(y, x)

Mul(x, y) ==
    LET g1 == GCD(Abs(x.n), y.d)
        g2 == GCD(Abs(y.n), x.d)
    IN  IF x.n = 0 \/ y.n = 0 THEN Zero
        ELSE [n |-> (x.n \div g1) * (y.n \div g2),
              d |-> (x.d \div g2) * (y.d \div g1)]

Inv(x) == IF x.n < 0 THEN [n |-> -x.d, d |-> -x.n] ELSE [n |-> x.d, d |-> x.n]

Div(x, y) == Mul(x, Inv(y))

Add(x, y) ==
    LET g == GCD(x.d, y.d)
    IN  R(x.n * (y.d \div g) + y.n * (x.d \div g), (x.d \div g) * y.d)

Neg(x) == [n |-> -x.n, d |-> x.d]
Sub(x, y) == Add(x, Neg(y))

\* Python truthiness of an optional number: None and 0 are falsy
Truthy(x) == x # None /\ x.n # 0

MinR(x, y) == IF Lt(y, x) THEN y ELSE x
MaxR(x, y) == IF Gt(y, x) THEN y ELSE x

(***************************************************************************)
(* LoanSizingEngine: types and tables                                      *)
(***************************************************************************)
\* class LoanType, in the order the Enum iterates
LoanType == <<"fannie_freddie", "cmbs", "debt_fund">>

\* class TreasuryTerm
TreasuryTerm == {"5Y", "7Y", "10Y", "15Y", "20Y", "30Y"}

\* LoanSizingEngine._define_loan_types
DefineLoanTypes ==
    [fannie_freddie |->
        [max_ltv |-> R(75, 100), min_dscr |-> R(125, 100),
         min_debt_yield |-> R(8, 100), amortization_years |-> 30,
         interest_only |-> FALSE, base_spread |-> 150,
         min_loan_amount |-> I(1000000), has_tier_pricing |-> TRUE,
         step_down_prepay_spread |-> 50],
     cmbs |->
        [max_ltv |-> R(75, 100), min_dscr |-> R(125, 100),
         min_debt_yield |-> R(9, 100), amortization_years |-> 0,
         interest_only |-> TRUE, base_spread |-> 300,
         min_loan_amount |-> I(5000000), has_tier_pricing |-> FALSE,
         step_down_prepay_spread |-> 0],
     debt_fund |->
        [max_ltv |-> R(80, 100), min_dscr |-> R(95, 100),
         min_debt_yield |-> None, amortization_years |-> 25,
         interest_only |-> FALSE, base_spread |-> 150,
         min_loan_amount |-> I(20000000), has_tier_pricing |-> FALSE,
         step_down_prepay_spread |-> 0]]

\* "no tier": the tier argument None of _calculate_single_scenario
NoTier == [tier_name |-> "None", max_ltv |-> None, min_dscr |-> None,
           spread_adjustment |-> 0]

\* the tier table with the constraints of Tier 2 and Tier 4 exchanged
DefineTierPricingExchanged ==
    << [tier_name |-> "Tier 2", max_ltv |-> R(55, 100), min_dscr |-> R(145, 100),
        spread_adjustment |-> 0],
       [tier_name |-> "Tier 3", max_ltv |-> R(65, 100), min_dscr |-> R(135, 100),
        spread_adjustment |-> -25],
       [tier_name |-> "Tier 4", max_ltv |-> R(75, 100), min_dscr |-> R(125, 100),
        spread_adjustment |-> -50] >>

\* LoanSizingEngine._define_tier_pricing
DefineTierPricing ==
    << [tier_name |-> "Tier 2", max_ltv |-> R(75, 100), min_dscr |-> R(125, 100),
        spread_adjustment |-> 0],
       [tier_name |-> "Tier 3", max_ltv |-> R(65, 100), min_dscr |-> R(135, 100),
        spread_adjustment |-> -25],
       [tier_name |-> "Tier 4", max_ltv |-> R(55, 100), min_dscr |-> R(145, 100),
        spread_adjustment |-> -50] >>

\* LoanSizingEngine.__init__: self.treasury_rates, in percent
InitTreasuryRates ==
    [t \in TreasuryTerm |->
        CASE t = "5Y" -> R(425, 100)
          [] t = "7Y" -> R(435, 100)
          [] t = "10Y" -> R(445, 100)
          [] t = "15Y" -> R(460, 100)
          [] t = "20Y" -> R(475, 100)
          [] t = "30Y" -> R(485, 100)]

(***************************************************************************)
(* Inputs of the engine's operations                                       *)
(***************************************************************************)
\* the noi argument of set_property_data, in dollars
NoiInputs ==
    {I(-250000), I(0), I(500000), I(1300000), I(1400000), I(1500000), I(7500000),
     I(30000000)}

\* the cap_rate argument: None, 0, a negative rate, 6 %, 8 %
CapRateInputs == {None, I(0), R(-5, 100), R(6, 100), R(8, 100)}

\* the property_value argument: None, 0, a negative value, and values
CapValueInputs == {None, I(0), I(-1000000), I(8000000), I(40000000)}

VARIABLES
    noi,              \* LoanSizingEngine.noi
    property_value,   \* LoanSizingEngine.property_value
    cap_rate,         \* LoanSizingEngine.cap_rate
    treasury_term,    \* LoanSizingEngine.treasury_term
    treasury_rates,   \* LoanSizingEngine.treasury_rates
    loan_types,       \* LoanSizingEngine.loan_types
    tier_pricing,     \* LoanSizingEngine.tier_pricing
    engine_call       \* the last call on the engine and what it returned or raised

engine_vars == <<noi, property_value, cap_rate, treasury_term, treasury_rates,
                 loan_types, tier_pricing, engine_call>>


\* the rate table read as stored, the 15Y entry included
get_treasury_rate_stored(term) == treasury_rates[term]

(***************************************************************************)
(* LoanSizingEngine: operations                                            *)
(***************************************************************************)
\* LoanSizingEngine.get_treasury_rate, for the engine's current term
get_treasury_rate(term) ==
    IF term = "15Y"
    THEN Div(Add(treasury_rates["10Y"], treasury_rates["20Y"]), I(2))
    ELSE treasury_rates[term]

\* the spread with the 6,000,000 boundary taken exclusively
calculate_spread_exclusive(loan_type, constraints, tier, loan_amount, step_down_prepay) ==
    LET base_spread ==
            IF loan_type = "fannie_freddie"
            THEN (IF Gt(loan_amount, I(6000000)) THEN 150 ELSE 200)
            ELSE constraints.base_spread
        tiered == IF tier # NoTier THEN base_spread + tier.spread_adjustment
                  ELSE base_spread
    IN  IF step_down_prepay /\ constraints.step_down_prepay_spread # 0
        THEN tiered + constraints.step_down_prepay_spread
        ELSE tiered

\* LoanSizingEngine._calculate_spread, in basis points
calculate_spread(loan_type, constraints, tier, loan_amount, step_down_prepay) ==
    LET base_spread ==
            IF loan_type = "fannie_freddie"
            THEN (IF Ge(loan_amount, I(6000000)) THEN 150 ELSE 200)
            ELSE constraints.base_spread
        tiered == IF tier # NoTier THEN base_spread + tier.spread_adjustment
                  ELSE base_spread
    IN  IF step_down_prepay /\ constraints.step_down_prepay_spread # 0
        THEN tiered + constraints.step_down_prepay_spread
        ELSE tiered

\* the debt-yield ceiling taken as noi x min_debt_yield
binding_amounts_yield_product(constraints, tier) ==
    LET max_ltv == IF tier # NoTier THEN tier.max_ltv ELSE constraints.max_ltv
        min_dscr == IF tier # NoTier THEN tier.min_dscr ELSE constraints.min_dscr
    IN  << [name |-> "LTV", amount |-> Mul(property_value, max_ltv)],
           [name |-> "DSCR",
            amount |-> IF Gt(min_dscr, Zero) THEN Div(noi, min_dscr) ELSE Inf],
           [name |-> "Debt Yield",
            amount |-> IF Truthy(constraints.min_debt_yield)
                       THEN Mul(noi, constraints.min_debt_yield) ELSE Inf] >>

\* binding_amounts of _calculate_single_scenario, in dictionary order
binding_amounts(constraints, tier) ==
    LET max_ltv == IF tier # NoTier THEN tier.max_ltv ELSE constraints.max_ltv
        min_dscr == IF tier # NoTier THEN tier.min_dscr ELSE constraints.min_dscr
    IN  << [name |-> "LTV", amount |-> Mul(property_value, max_ltv)],
           [name |-> "DSCR",
            amount |-> IF Gt(min_dscr, Zero) THEN Div(noi, min_dscr) ELSE Inf],
           [name |-> "Debt Yield",
            amount |-> IF Truthy(constraints.min_debt_yield)
                       THEN Div(noi, constraints.min_debt_yield) ELSE Inf] >>

\* min(binding_amounts.values())
MinAmount(b) == MinR(MinR(b[1].amount, b[2].amount), b[3].amount)

\* the last key of least value
MinKeyLast(b) ==
    LET m == MinAmount(b)
    IN  IF b[3].amount = m THEN b[3].name
        ELSE IF b[2].amount = m THEN b[2].name
        ELSE b[1].name

\* min(binding_amounts, key=binding_amounts.get): the first key of least value
MinKey(b) ==
    LET m == MinAmount(b)
    IN  IF b[1].amount = m THEN b[1].name
        ELSE IF b[2].amount = m THEN b[2].name
        ELSE b[3].name

\* mutant: the minimum-loan-amount test never discards a scenario
BelowMinimumNever(constraints, loan_amount) == FALSE

\* the minimum-loan-amount test of _calculate_single_scenario (lines 271-273)
BelowMinimum(constraints, loan_amount) ==
    Truthy(constraints.min_loan_amount) /\ Lt(loan_amount, constraints.min_loan_amount)

\* LoanSizingEngine._calculate_single_scenario: <<>> for None, else <<scenario>>.
\* payment and dscr (an annuity over amortization_years * 12 periods) are not
\* carried: no integer arithmetic states them exactly.
calculate_single_scenario(loan_type, constraints, tier, step_down_prepay) ==
    LET b == binding_amounts(constraints, tier)
        loan_amount == MinAmount(b)
        constraint_binding == MinKey(b)
        treasury_rate == get_treasury_rate(treasury_term)
        spread == calculate_spread(loan_type, constraints, tier, loan_amount,
                                   step_down_prepay)
    IN  IF BelowMinimum(constraints, loan_amount) THEN <<>>
        ELSE << [loan_type |-> loan_type,
                 tier_name |-> tier.tier_name,
                 loan_amount |-> loan_amount,
                 ltv |-> Div(loan_amount, property_value),
                 debt_yield |-> IF Gt(loan_amount, Zero)
                                THEN Div(noi, loan_amount) ELSE Zero,
                 interest_rate |-> Add(treasury_rate, R(spread, 100)),
                 amortization_years |-> constraints.amortization_years,
                 treasury_rate |-> treasury_rate,
                 spread |-> spread,
                 step_down_prepay |-> step_down_prepay,
                 constraint_binding |-> constraint_binding] >>

\* the loop over self.tier_pricing of _calculate_loan_type_scenarios
RECURSIVE TierScenarios(_, _, _, _)
TierScenarios(loan_type, constraints, tiers, step_down_prepay) ==
    IF tiers = <<>> THEN <<>>
    ELSE calculate_single_scenario(loan_type, constraints, Head(tiers),
                                   step_down_prepay)
         \o TierScenarios(loan_type, constraints, Tail(tiers), step_down_prepay)

\* a step-down request is quoted for Fannie/Freddie alone
calculate_loan_type_scenarios_step_down(loan_type, step_down_prepay) ==
    LET constraints == loan_types[loan_type]
    IN  IF step_down_prepay /\ constraints.step_down_prepay_spread = 0
        THEN <<>>
        ELSE IF Truthy(constraints.min_loan_amount)
           /\ Gt(constraints.min_loan_amount,
                 Mul(property_value, constraints.max_ltv))
        THEN <<>>
        ELSE IF loan_type = "fannie_freddie" /\ constraints.has_tier_pricing
        THEN TierScenarios(loan_type, constraints, tier_pricing, step_down_prepay)
        ELSE calculate_single_scenario(loan_type, constraints, NoTier,
                                       step_down_prepay)

\* LoanSizingEngine._calculate_loan_type_scenarios
calculate_loan_type_scenarios(loan_type, step_down_prepay) ==
    LET constraints == loan_types[loan_type]
    IN  IF Truthy(constraints.min_loan_amount)
           /\ Gt(constraints.min_loan_amount,
                 Mul(property_value, constraints.max_ltv))
        THEN <<>>
        ELSE IF loan_type = "fannie_freddie" /\ constraints.has_tier_pricing
        THEN TierScenarios(loan_type, constraints, tier_pricing, step_down_prepay)
        ELSE calculate_single_scenario(loan_type, constraints, NoTier,
                                       step_down_prepay)

\* list.sort(key=loan_amount, reverse=True): stable, equal keys keep their order
RECURSIVE InsertDesc(_, _)
InsertDesc(sorted, x) ==
    IF sorted = <<>> THEN <<x>>
    ELSE IF Lt(Head(sorted).loan_amount, x.loan_amount)
    THEN <<x>> \o sorted
    ELSE <<Head(sorted)>> \o InsertDesc(Tail(sorted), x)

\* mutant: the list is returned in evaluation order, not sorted
SortDescOmitted(s) == s

RECURSIVE SortDesc(_)
SortDesc(s) ==
    IF s = <<>> THEN <<>>
    ELSE InsertDesc(SortDesc(SubSeq(s, 1, Len(s) - 1)), s[Len(s)])

\* the scenarios of calculate_loan_scenarios, before and after the sort
AllScenarios(step_down_prepay) ==
    calculate_loan_type_scenarios(LoanType[1], step_down_prepay)
    \o calculate_loan_type_scenarios(LoanType[2], step_down_prepay)
    \o calculate_loan_type_scenarios(LoanType[3], step_down_prepay)

SortedScenarios(step_down_prepay) == SortDesc(AllScenarios(step_down_prepay))

\* mutant: the guard tests the NOI alone
InvalidPropertyStateNoiOnly == Le(noi, Zero)

\* the guard of calculate_loan_scenarios (lines 201-202)
InvalidPropertyState == Le(noi, Zero) \/ Le(property_value, Zero)

EngineCall(op, raised, scenarios, step_down_prepay) ==
    [op |-> op, raised |-> raised, scenarios |-> scenarios,
     step_down_prepay |-> step_down_prepay]

\* LoanSizingEngine.__init__
EngineInit ==
    /\ noi = Zero
    /\ property_value = Zero
    /\ cap_rate = Zero
    /\ treasury_term = "10Y"
    /\ treasury_rates = InitTreasuryRates
    /\ loan_types = DefineLoanTypes
    /\ tier_pricing = DefineTierPricing
    /\ engine_call = EngineCall("init", FALSE, <<>>, FALSE)

\* LoanSizingEngine.set_property_data(noi, cap_rate, property_value)
set_property_data(noi_in, cap_rate_in, property_value_in) ==
    /\ noi' = noi_in
    /\ IF Truthy(property_value_in)
       THEN /\ property_value' = property_value_in
            /\ cap_rate' = IF Gt(property_value_in, Zero)
                           THEN Div(noi_in, property_value_in) ELSE Zero
            /\ engine_call' = EngineCall("set_property_data", FALSE, <<>>, FALSE)
       ELSE IF Truthy(cap_rate_in)
       THEN /\ cap_rate' = cap_rate_in
            /\ property_value' = IF Gt(cap_rate_in, Zero)
                                 THEN Div(noi_in, cap_rate_in) ELSE Zero
            /\ engine_call' = EngineCall("set_property_data", FALSE, <<>>, FALSE)
       ELSE /\ UNCHANGED <<property_value, cap_rate>>
            /\ engine_call' = EngineCall("set_property_data", TRUE, <<>>, FALSE)
    /\ UNCHANGED <<treasury_term, treasury_rates, loan_types, tier_pricing>>

\* LoanSizingEngine.set_treasury_term(term)
set_treasury_term(term) ==
    /\ treasury_term' = term
    /\ engine_call' = EngineCall("set_treasury_term", FALSE, <<>>, FALSE)
    /\ UNCHANGED <<noi, property_value, cap_rate, treasury_rates, loan_types,
                   tier_pricing>>

\* a calculation that consumes the property data it was given
calculate_loan_scenarios_consuming(step_down_prepay) ==
    /\ engine_call' =
          IF InvalidPropertyState
          THEN EngineCall("calculate_loan_scenarios", TRUE, <<>>, step_down_prepay)
          ELSE EngineCall("calculate_loan_scenarios", FALSE,
                          SortedScenarios(step_down_prepay), step_down_prepay)
    /\ noi' = Zero
    /\ UNCHANGED <<property_value, cap_rate, treasury_term, treasury_rates,
                   loan_types, tier_pricing>>

\* LoanSizingEngine.calculate_loan_scenarios(step_down_prepay)
calculate_loan_scenarios(step_down_prepay) ==
    /\ engine_call' =
          IF InvalidPropertyState
          THEN EngineCall("calculate_loan_scenarios", TRUE, <<>>, step_down_prepay)
          ELSE EngineCall("calculate_loan_scenarios", FALSE,
                          SortedScenarios(step_down_prepay), step_down_prepay)
    /\ UNCHANGED <<noi, property_value, cap_rate, treasury_term, treasury_rates,
                   loan_types, tier_pricing>>

\* item assignment on the engine's rate table: treasury_rates[term] = rate
update_treasury_rate(term, rate) ==
    /\ treasury_rates' = [treasury_rates EXCEPT ![term] = rate]
    /\ engine_call' = EngineCall("treasury_rates", FALSE, <<>>, FALSE)
    /\ UNCHANGED <<noi, property_value, cap_rate, treasury_term, loan_types,
                   tier_pricing>>

(***************************************************************************)
(* UnderwritingAnalyzer: tables (pandas DataFrames) and their inputs       *)
(*                                                                         *)
(* A table is [columns |-> sequence of column names, rows |-> sequence of  *)
(* rows]; a row carries its pandas index label in idx (0-based position in *)
(* the table as loaded) and one cell per column.  A cell of None is NaN.   *)
(***************************************************************************)
\* the keywords (lower case) each column name of the inputs contains
ColumnContains ==
    [Unit |-> {"unit"}, Rent |-> {"rent"}, Type |-> {"type"},
     Status |-> {"status"}, SqFt |-> {"sqft"}]

\* UnderwritingAnalyzer._find_column: the first column holding a keyword, or "None"
RECURSIVE find_column(_, _)
find_column(columns, keywords) ==
    IF columns = <<>> THEN "None"
    ELSE IF ColumnContains[Head(columns)] \cap keywords # {} THEN Head(columns)
    ELSE find_column(Tail(columns), keywords)

\* the keywords (lower case) each status text of the inputs contains
StatusContains ==
    [Occupied |-> {"occupied", "occ"}, Vacant |-> {"vacant", "vac"},
     Rented |-> {"rented"}, Down |-> {}]

\* str.contains(keyword) on the lower-cased status
StatusHas(status, keyword) == keyword \in StatusContains[status]

\* lines 74-75: every character but digits and '.' is removed (a sign is
\* lost), then pd.to_numeric: a blank or NaN cell gives NaN
clean_rent(raw) == IF raw = None THEN None ELSE [n |-> Abs(raw.n), d |-> raw.d]

RECURSIVE SumRent(_)
SumRent(rows) ==
    IF rows = <<>> THEN Zero ELSE Add(Head(rows).clean_rent, SumRent(Tail(rows)))

\* Series.mean() of clean_rent over a non-empty frame
MeanRent(rows) == Div(SumRent(rows), I(Len(rows)))

\* line 76: df = df[df['clean_rent'] > 0], NaN > 0 being False
ValidRent(row) == row.clean_rent # None /\ Gt(row.clean_rent, Zero)

\* lines 74-75: the column clean_rent added to the loaded frame
WithCleanRent(df, rent_col) ==
    [i \in 1..Len(df.rows) |->
        [df.rows[i] EXCEPT !.clean_rent = clean_rent(df.rows[i][rent_col])]]

\* lines 73-76: the frame the analysis works on
CleanFrame(df, rent_col) ==
    IF rent_col = "None" THEN df.rows
    ELSE SelectSeq(WithCleanRent(df, rent_col), ValidRent)

\* df[type_col].dropna().unique(): the types in order of first appearance
RECURSIVE UniqueTypes(_, _, _)
UniqueTypes(rows, type_col, seen) ==
    IF rows = <<>> THEN <<>>
    ELSE IF Head(rows)[type_col] \in seen
    THEN UniqueTypes(Tail(rows), type_col, seen)
    ELSE <<Head(rows)[type_col]>>
         \o UniqueTypes(Tail(rows), type_col, seen \cup {Head(rows)[type_col]})

\* df[df[type_col] == unit_type]
TypeData(rows, type_col, unit_type) ==
    SelectSeq(rows, LAMBDA row : row[type_col] = unit_type)

\* UnderwritingAnalyzer._count_occupied_units: the count for the first of the
\* keywords 'occupied', 'occ', 'rented' that any row matches
count_occupied_units(rows, status_col) ==
    LET Matches(k) == Len(SelectSeq(rows, LAMBDA row : StatusHas(row[status_col], k)))
        positive == Len(SelectSeq(rows, LAMBDA row : Gt(row.clean_rent, Zero)))
    IN  IF status_col = "None" THEN positive
        ELSE IF Matches("occupied") > 0 THEN Matches("occupied")
        ELSE IF Matches("occ") > 0 THEN Matches("occ")
        ELSE IF Matches("rented") > 0 THEN Matches("rented")
        ELSE positive

\* UnderwritingAnalyzer._analyze_by_unit_type (avg_sqft / rent_per_sqft apart)
analyze_by_unit_type(rows, type_col, status_col) ==
    LET types == UniqueTypes(rows, type_col, {})
    IN  [i \in 1..Len(types) |->
            LET type_data == TypeData(rows, type_col, types[i])
            IN  [unit_type |-> types[i],
                 avg_rent |-> MeanRent(type_data),
                 unit_count |-> Len(type_data),
                 occupied_count |-> count_occupied_units(type_data, status_col)]]

\* lines 375-380: a row is vacant when its status holds 'vacant', 'vac' or 'empty'
IsVacant(row, status_col) ==
    \E k \in {"vacant", "vac", "empty"} : StatusHas(row[status_col], k)

\* lines 378-382.  vacant_mask is built on RangeIndex(len(df)) and "|=" keeps
\* that index, so df[vacant_mask] raises IndexingError ("Unalignable boolean
\* Series") as soon as the frame holds a label outside 0..len(df)-1, that is
\* when line 76 dropped a row that precedes a kept one
MaskUnalignable(rows) == \E i \in 1..Len(rows) : rows[i].idx >= Len(rows)

\* line 390: "~vacant_mask & type_units.index.isin(df.index)" combines a Series
\* of len(df) with an array of len(type_units); numpy raises ValueError unless
\* the lengths agree or the array has length 1 (it is then broadcast)
BroadcastFails(rows, type_units) ==
    Len(type_units) # Len(rows) /\ Len(type_units) # 1

VacantUnits(rows, status_col) == SelectSeq(rows, LAMBDA row : IsVacant(row, status_col))

\* lines 389-390: the units of the type that the mask does not mark vacant
OccupiedTypeUnits(rows, type_col, status_col, unit_type) ==
    SelectSeq(TypeData(rows, type_col, unit_type),
              LAMBDA row : ~IsVacant(row, status_col))

\* lines 385-394: the income imputed to one vacant unit
ImputedRent(rows, type_col, status_col, vacant_unit) ==
    LET occupied_type_units ==
            OccupiedTypeUnits(rows, type_col, status_col, vacant_unit[type_col])
    IN  IF Len(occupied_type_units) > 0 THEN MeanRent(occupied_type_units) ELSE Zero

RECURSIVE SumImputed(_, _, _, _)
SumImputed(rows, type_col, status_col, vacant_units) ==
    IF vacant_units = <<>> THEN Zero
    ELSE Add(ImputedRent(rows, type_col, status_col, Head(vacant_units)),
             SumImputed(rows, type_col, status_col, Tail(vacant_units)))

\* whether UnderwritingAnalyzer._calculate_vacant_income raises
vacant_income_raises(rows, type_col, status_col) ==
    /\ type_col # "None"
    /\ status_col # "None"
    /\ Len(rows) > 0
    /\ \/ MaskUnalignable(rows)
       \/ \E i \in 1..Len(rows) :
             /\ IsVacant(rows[i], status_col)
             /\ BroadcastFails(rows, TypeData(rows, type_col, rows[i][type_col]))

\* UnderwritingAnalyzer._calculate_vacant_income, when it returns
calculate_vacant_income(rows, type_col, status_col) ==
    IF type_col = "None" \/ status_col = "None" THEN Zero
    ELSE SumImputed(rows, type_col, status_col, VacantUnits(rows, status_col))

\* line 90: current_income = df[df['clean_rent'] > 0]['clean_rent'].sum()
CurrentIncome(rows) ==
    SumRent(SelectSeq(rows, LAMBDA row : Gt(row.clean_rent, Zero)))

\* mutant: the threshold comparison is inclusive
UnderpricedInclusive(row, avg_rent) == Le(row.clean_rent, Mul(avg_rent, R(7, 10)))

\* line 405-407: clean_rent < avg_rent * 0.7
Underpriced(row, avg_rent) == Lt(row.clean_rent, Mul(avg_rent, R(7, 10)))

\* UnderwritingAnalyzer._flag_underpriced_units
RECURSIVE flag_underpriced_units(_, _, _)
flag_underpriced_units(rows, type_col, types) ==
    IF types = <<>> THEN <<>>
    ELSE LET type_data == TypeData(rows, type_col, Head(types))
             avg_rent == MeanRent(type_data)
             underpriced == SelectSeq(type_data, LAMBDA row : Underpriced(row, avg_rent))
         IN  [i \in 1..Len(underpriced) |->
                 [type |-> "underpriced_unit",
                  idx |-> underpriced[i].idx,
                  unit_type |-> Head(types),
                  current_rent |-> underpriced[i].clean_rent,
                  type_average |-> avg_rent]]
             \o flag_underpriced_units(rows, type_col, Tail(types))

\* lines 113-118: the missing-square-footage flag
missing_sqft_flags(rows, sqft_col) ==
    IF sqft_col = "None" \/ \E i \in 1..Len(rows) : rows[i][sqft_col] = None
    THEN << [type |-> "missing_sqft"] >>
    ELSE <<>>

EmptyDict == [k \in {} |-> Zero]

\* dict.get(key, default)
Get(dict, key, default) == IF key \in DOMAIN dict THEN dict[key] ELSE default

\* UnderwritingAnalyzer._analyze_rent_roll, when it returns
analyze_rent_roll(df) ==
    LET rent_col == find_column(df.columns, {"rent", "current rent", "monthly rent"})
        unit_type_col == find_column(df.columns, {"type", "unit type", "bed", "bedroom"})
        sqft_col == find_column(df.columns, {"sqft", "sq ft", "square feet", "sf"})
        status_col == find_column(df.columns, {"status", "occupied", "vacant"})
        rows == CleanFrame(df, rent_col)
        total_units == Len(rows)
        occupied_units == count_occupied_units(rows, status_col)
        current_income == CurrentIncome(rows)
        vacant_income == calculate_vacant_income(rows, unit_type_col, status_col)
        gross_potential_income == Add(current_income, vacant_income)
    IN  [unit_analysis |->
            IF unit_type_col # "None" /\ rent_col # "None"
            THEN analyze_by_unit_type(rows, unit_type_col, status_col) ELSE <<>>,
         rent_analysis |->
            IF rent_col # "None"
            THEN [total_units |-> I(total_units),
                  occupied_units |-> I(occupied_units),
                  vacant_units |-> I(total_units - occupied_units),
                  current_monthly_income |-> current_income,
                  vacant_unit_income |-> vacant_income,
                  gross_potential_income |-> gross_potential_income,
                  annual_gpi |-> Mul(gross_potential_income, I(12))]
            ELSE EmptyDict,
         flags |->
            (IF unit_type_col # "None" /\ rent_col # "None"
             THEN flag_underpriced_units(rows, unit_type_col,
                                         UniqueTypes(rows, unit_type_col, {}))
             ELSE <<>>)
            \o missing_sqft_flags(rows, sqft_col)]

\* whether UnderwritingAnalyzer._analyze_rent_roll raises
analyze_rent_roll_raises(df) ==
    LET rent_col == find_column(df.columns, {"rent", "current rent", "monthly rent"})
        unit_type_col == find_column(df.columns, {"type", "unit type", "bed", "bedroom"})
        status_col == find_column(df.columns, {"status", "occupied", "vacant"})
    IN  /\ rent_col # "None"
        /\ vacant_income_raises(CleanFrame(df, rent_col), unit_type_col, status_col)

(***************************************************************************)
(* UnderwritingAnalyzer: state                                             *)
(***************************************************************************)
VARIABLES
    property_info,     \* UnderwritingAnalyzer.property_info
    rent_roll_data,    \* UnderwritingAnalyzer.rent_roll_data
    t12_data,          \* UnderwritingAnalyzer.t12_data
    analysis_results,  \* UnderwritingAnalyzer.analysis_results
    summary,           \* what generate_underwriting_summary last returned
    rule_runs,         \* history: every application of the expense rules so far
    analyzer_call      \* the last call on the analyzer and whether it raised

analyzer_vars == <<property_info, rent_roll_data, t12_data, analysis_results,
                   summary, rule_runs, analyzer_call>>


\* the value None of rent_roll_data and t12_data
NoData == [columns |-> <<>>, rows |-> <<>>, loaded |-> FALSE]

AnalyzerCall(op, raised) == [op |-> op, raised |-> raised]

\* UnderwritingAnalyzer.__init__
AnalyzerInit ==
    /\ property_info = EmptyDict
    /\ rent_roll_data = NoData
    /\ t12_data = NoData
    /\ analysis_results = EmptyDict
    /\ summary = EmptyDict
    /\ rule_runs = <<>>
    /\ analyzer_call = AnalyzerCall("init", FALSE)

\* UnderwritingAnalyzer.load_rent_roll(rent_roll_df)
load_rent_roll(df) ==
    LET rent_col == find_column(df.columns, {"rent", "current rent", "monthly rent"})
    IN  /\ rent_roll_data' =
              [df EXCEPT !.rows = IF rent_col = "None" THEN df.rows
                                  ELSE WithCleanRent(df, rent_col)]
        /\ IF analyze_rent_roll_raises(df)
           THEN /\ analyzer_call' = AnalyzerCall("load_rent_roll", TRUE)
                /\ UNCHANGED analysis_results
           ELSE /\ analyzer_call' = AnalyzerCall("load_rent_roll", FALSE)
                /\ analysis_results' =
                      [k \in DOMAIN analysis_results \cup {"rent_roll"} |->
                          IF k = "rent_roll" THEN analyze_rent_roll(df)
                          ELSE analysis_results[k]]
        /\ UNCHANGED <<property_info, t12_data, summary, rule_runs>>

(***************************************************************************)
(* UnderwritingAnalyzer: T12 line items                                    *)
(***************************************************************************)
\* a T12 cell that float() does not parse
Text == [n |-> 2, d |-> 0]

\* for the text of a line item (first column), the keywords of
\* income_keywords and expense_keywords that its lower-cased text contains
LabelContains ==
    ("Rental Income" :> {"rental income"}) @@
    ("Other Income" :> {"other income"}) @@
    ("Vacancy Loss" :> {"vacancy", "vacancy loss"}) @@
    ("Property Taxes" :> {"property tax", "taxes"}) @@
    ("Insurance" :> {"insurance"}) @@
    ("Electricity" :> {"electric", "electricity"}) @@
    ("Water & Sewer" :> {"water", "sewer"}) @@
    ("Trash" :> {"trash"}) @@
    ("Repairs & Maintenance" :> {"repairs", "maintenance"}) @@
    ("Payroll" :> {"payroll"}) @@
    ("Payroll Taxes" :> {"payroll", "taxes"}) @@
    ("Administrative" :> {"admin"}) @@
    ("Management Fee" :> {"management"}) @@
    ("Total Operating Expenses" :> {})

income_keywords ==
    ("rental_income" :> {"rental income", "rent income", "rental revenue"}) @@
    ("other_income" :> {"other income", "misc income", "ancillary income"})

expense_keywords ==
    ("vacancy" :> {"vacancy", "vacancy loss", "vacant"}) @@
    ("property_taxes" :> {"property tax", "real estate tax", "taxes"}) @@
    ("insurance" :> {"insurance"}) @@
    ("electricity" :> {"electric", "electricity"}) @@
    ("water" :> {"water"}) @@
    ("sewer" :> {"sewer"}) @@
    ("trash" :> {"trash", "garbage"}) @@
    ("repairs_maintenance" :>
        {"repairs", "maintenance", "r&m", "repair & maintenance"}) @@
    ("payroll" :> {"payroll", "wages", "salary"}) @@
    ("admin_fees" :> {"admin", "professional", "general admin", "office"}) @@
    ("management_fee" :> {"management", "mgmt"})

AbsR(x) == [n |-> Abs(x.n), d |-> x.d]

\* the first cell of df.columns[1:] that float() parses; None when there is none
RECURSIVE FirstParsed(_)
FirstParsed(values) ==
    IF values = <<>> THEN None
    ELSE IF IsNum(Head(values)) THEN Head(values)
    ELSE FirstParsed(Tail(values))

\* the row names one of the keywords and holds a value that parses
RowFound(row, keywords) ==
    /\ LabelContains[row.label] \cap keywords # {}
    /\ FirstParsed(row.values) # None

\* every found row overwrites the item, so the last one stays
LastFound(rows, keywords) ==
    CHOOSE i \in 1..Len(rows) :
        /\ RowFound(rows[i], keywords)
        /\ \A j \in (i + 1)..Len(rows) : ~RowFound(rows[j], keywords)

FoundItems(rows, table) ==
    {t \in DOMAIN table : \E i \in 1..Len(rows) : RowFound(rows[i], table[t])}

\* UnderwritingAnalyzer._extract_income_items: '(' becomes '-', the sign stays
extract_income_items(df) ==
    [t \in FoundItems(df.rows, income_keywords) |->
        FirstParsed(df.rows[LastFound(df.rows, income_keywords[t])].values)]

\* UnderwritingAnalyzer._extract_expense_items: abs(value)
extract_expense_items(df) ==
    [t \in FoundItems(df.rows, expense_keywords) |->
        AbsR(FirstParsed(df.rows[LastFound(df.rows, expense_keywords[t])].values))]

\* UnderwritingAnalyzer._apply_income_rules
apply_income_rules(income_items) ==
    LET other_income == Get(income_items, "other_income", Zero)
    IN  IF other_income = Zero
        THEN [other_income_flag |-> "Other income missing - requires clarification"]
        ELSE [other_income |-> other_income]

(***************************************************************************)
(* UnderwritingAnalyzer: the expense rule set                              *)
(***************************************************************************)
property_age == Get(property_info, "property_age", 25)
unit_count == Get(property_info, "unit_count", 1)

\* a rule that reads analyzer state the rule set does not read
is_refinance_after_first_t12 ==
    /\ Get(property_info, "transaction_type", "refinance") = "refinance"
    /\ t12_data.loaded

is_refinance == Get(property_info, "transaction_type", "refinance") = "refinance"

\* 'rent_roll' in self.analysis_results
HasRentRoll == "rent_roll" \in DOMAIN analysis_results

\* self.analysis_results['rent_roll']['rent_analysis'].get('annual_gpi', 0)
annual_gpi ==
    Get(analysis_results["rent_roll"].rent_analysis, "annual_gpi", Zero)

rm_minimums ==
    << <<0, 10, 500>>, <<10, 20, 600>>, <<20, 30, 700>>, <<30, 40, 800>>,
       <<40, 50, 900>>, <<50, 100, 1000>> >>

\* the first range holding the age, 500 when no range holds it
rm_minimum(age) ==
    LET hits == {i \in 1..Len(rm_minimums) :
                    rm_minimums[i][1] <= age /\ age < rm_minimums[i][2]}
    IN  IF hits = {} THEN 500
        ELSE rm_minimums[CHOOSE i \in hits : \A j \in hits : i <= j][3]

\* if actual < minimum: minimum; elif actual > cap: cap; else: actual
Clamped(actual, minimum, cap) ==
    IF Lt(actual, minimum) THEN [amount |-> minimum, rule |-> "minimum"]
    ELSE IF Gt(actual, cap) THEN [amount |-> cap, rule |-> "cap"]
    ELSE [amount |-> actual, rule |-> "actual"]

\* the tier boundaries taken exclusively
mgmt_rate_exclusive(gross_income) ==
    IF Lt(gross_income, I(500000)) THEN R(5, 100)
    ELSE IF Lt(gross_income, I(750000)) THEN R(45, 1000)
    ELSE IF Lt(gross_income, I(1000000)) THEN R(4, 100)
    ELSE IF Lt(gross_income, I(1500000)) THEN R(35, 1000)
    ELSE IF Lt(gross_income, I(2000000)) THEN R(3, 100)
    ELSE R(25, 1000)

mgmt_rate(gross_income) ==
    IF Le(gross_income, I(500000)) THEN R(5, 100)
    ELSE IF Le(gross_income, I(750000)) THEN R(45, 1000)
    ELSE IF Le(gross_income, I(1000000)) THEN R(4, 100)
    ELSE IF Le(gross_income, I(1500000)) THEN R(35, 1000)
    ELSE IF Le(gross_income, I(2000000)) THEN R(3, 100)
    ELSE R(25, 1000)

\* round-half-even of a rational, as '{:.0f}' rounds the float
RoundHalfEven(x) ==
    LET f == Floor(x)
        twice == 2 * (x.n - f * x.d)
    IN  IF twice < x.d THEN f
        ELSE IF twice > x.d THEN f + 1
        ELSE IF f % 2 = 0 THEN f ELSE f + 1

\* the number an f-string shows for '{x:,.0f}'
Rendered(x) == I(RoundHalfEven(x))

\* the percentage an f-string shows for '{x:.1%}'
RenderedPercent(x) == R(RoundHalfEven(Mul(x, I(1000))), 10)

\* an adjustments entry: the f-string and the numbers written into it (the
\* numbers written in the text itself included)
Rationale(text, values) == [text |-> text, values |-> values]

Item(key, amount) == [key |-> key, amount |-> amount]

\* dict.get on a dict kept as the sequence of its items in insertion order
ItemGet(items, key, default) ==
    IF \E i \in 1..Len(items) : items[i].key = key
    THEN items[CHOOSE i \in 1..Len(items) : items[i].key = key].amount
    ELSE default

RECURSIVE SumItems(_)
SumItems(items) ==
    IF items = <<>> THEN Zero ELSE Add(Head(items).amount, SumItems(Tail(items)))

\* UnderwritingAnalyzer._apply_expense_rules
apply_expense_rules(expense_items) ==
    LET actual(key) == Get(expense_items, key, Zero)
        vacancy_5_percent == Mul(annual_gpi, R(5, 100))
        rm_minimum_total == I(rm_minimum(property_age) * unit_count)
        rm_cap == I(1500 * unit_count)
        rm == Clamped(actual("repairs_maintenance"), rm_minimum_total, rm_cap)
        payroll == Clamped(actual("payroll"), rm_minimum_total, rm_cap)
        admin == Clamped(actual("admin_fees"), I(1000), I(400 * unit_count))
        adjusted_expenses ==
            (IF HasRentRoll
             THEN << Item("vacancy", MaxR(vacancy_5_percent, actual("vacancy"))) >>
             ELSE <<>>)
            \o << Item("property_taxes",
                       IF is_refinance
                       THEN Mul(actual("property_taxes"), R(1075, 1000))
                       ELSE actual("property_taxes")),
                  Item("insurance", Mul(actual("insurance"), R(105, 100))),
                  Item("electricity", Mul(actual("electricity"), R(102, 100))),
                  Item("water", Mul(actual("water"), R(102, 100))),
                  Item("sewer", Mul(actual("sewer"), R(102, 100))),
                  Item("trash", Mul(actual("trash"), R(102, 100))),
                  Item("repairs_maintenance", rm.amount),
                  Item("payroll", payroll.amount),
                  Item("admin_fees", admin.amount) >>
            \o (IF HasRentRoll
                THEN << Item("management_fee",
                             Mul(annual_gpi, mgmt_rate(annual_gpi))) >>
                ELSE <<>>)
            \o << Item("replacement_reserves", I(250 * unit_count)) >>
        total_expenses == SumItems(adjusted_expenses)
        egi == Sub(annual_gpi, ItemGet(adjusted_expenses, "vacancy", Zero))
        expense_ratio == IF Gt(egi, Zero) THEN Div(total_expenses, egi) ELSE Zero
    IN  [adjusted_expenses |-> adjusted_expenses,
         adjustments |->
            (IF HasRentRoll
             THEN ("vacancy" :>
                      Rationale("Used {:,.0f} (5% of GPI: {:,.0f}, Actual: {:,.0f})",
                                << Rendered(MaxR(vacancy_5_percent, actual("vacancy"))),
                                   Rendered(vacancy_5_percent),
                                   Rendered(actual("vacancy")) >>))
                  @@ ("management_fee" :>
                      Rationale("Applied {}% rate to gross income of ${:,.0f}",
                                << Mul(mgmt_rate(annual_gpi), I(100)),
                                   Rendered(annual_gpi) >>))
                  @@ ("minimum_ratio" :>
                      IF Lt(expense_ratio, R(28, 100))
                      THEN Rationale("Expense ratio {:.1%} below 28% minimum. Shortfall: ${:,.0f}",
                                     << RenderedPercent(expense_ratio),
                                        Rendered(Sub(Mul(egi, R(28, 100)),
                                                     total_expenses)) >>)
                      ELSE Rationale("Expense ratio {:.1%} meets 28% minimum",
                                     << RenderedPercent(expense_ratio) >>))
             ELSE EmptyDict)
            @@ ("property_taxes" :>
                   IF is_refinance
                   THEN Rationale("Refinance: Increased actual {:,.0f} by 7.5%",
                                  << Rendered(actual("property_taxes")) >>)
                   ELSE Rationale("Acquisition: Using actuals (millage rate calculation needed)",
                                  <<>>))
            @@ ("insurance" :>
                   Rationale("Increased actual {:,.0f} by 5%",
                             << Rendered(actual("insurance")) >>))
            @@ [utility \in {"electricity", "water", "sewer", "trash"} |->
                   Rationale("Increased actual {:,.0f} by 2%",
                             << Rendered(actual(utility)) >>)]
            @@ ("repairs_maintenance" :>
                   IF rm.rule = "minimum"
                   THEN Rationale("Increased to minimum ${}/unit for {}yr property",
                                  << I(rm_minimum(property_age)), I(property_age) >>)
                   ELSE IF rm.rule = "cap"
                   THEN Rationale("Capped at $1500/unit (excess: ${:,.0f})",
                                  << I(1500),
                                     Rendered(Sub(actual("repairs_maintenance"),
                                                  rm_cap)) >>)
                   ELSE Rationale("Used actual (within range)", <<>>))
            @@ ("payroll" :>
                   IF payroll.rule = "minimum"
                   THEN Rationale("Increased to minimum ${}/unit",
                                  << I(rm_minimum(property_age)) >>)
                   ELSE IF payroll.rule = "cap"
                   THEN Rationale("Capped at $1500/unit", << I(1500) >>)
                   ELSE Rationale("Used actual (within range)", <<>>))
            @@ ("admin_fees" :>
                   IF admin.rule = "minimum"
                   THEN Rationale("Increased to minimum $1,000", << I(1000) >>)
                   ELSE IF admin.rule = "cap"
                   THEN Rationale("Capped at $400/unit", << I(400) >>)
                   ELSE Rationale("Used actual (within range)", <<>>))
            @@ ("replacement_reserves" :>
                   Rationale("Applied $250/unit for {} units",
                             << I(250), I(unit_count) >>)),
         total_adjusted_expenses |-> total_expenses]

\* UnderwritingAnalyzer._analyze_t12 on the table just loaded
analyze_t12(df) ==
    [income_analysis |-> apply_income_rules(extract_income_items(df)),
     expense_analysis |-> apply_expense_rules(extract_expense_items(df)),
     adjusted_expenses |-> <<>>,
     flags |-> <<>>]

\* UnderwritingAnalyzer.set_property_info(info)
set_property_info(info) ==
    /\ property_info' = info
    /\ analyzer_call' = AnalyzerCall("set_property_info", FALSE)
    /\ UNCHANGED <<rent_roll_data, t12_data, analysis_results, summary, rule_runs>>

\* what one application of the rule set was given and what it produced
RuleRun(expense_items, expense_analysis) ==
    [expense_items |-> expense_items,
     property_age |-> property_age,
     unit_count |-> unit_count,
     is_refinance |-> Get(property_info, "transaction_type", "refinance") = "refinance",
     has_rent_roll |-> HasRentRoll,
     annual_gpi |-> IF HasRentRoll THEN annual_gpi ELSE None,
     adjusted_expenses |-> expense_analysis.adjusted_expenses,
     adjustments |-> expense_analysis.adjustments]

\* UnderwritingAnalyzer.load_t12(t12_df)
load_t12(df) ==
    /\ t12_data' = df
    /\ analysis_results' =
          [k \in DOMAIN analysis_results \cup {"t12"} |->
              IF k = "t12" THEN analyze_t12(df) ELSE analysis_results[k]]
    /\ rule_runs' =
          Append(rule_runs,
                 RuleRun(extract_expense_items(df),
                         analyze_t12(df).expense_analysis))
    /\ analyzer_call' = AnalyzerCall("load_t12", FALSE)
    /\ UNCHANGED <<property_info, rent_roll_data, summary>>

\* line 506 divides occupied_units by total_units: ZeroDivisionError when the
\* rent roll had a rent column and no row with rent > 0
summary_raises ==
    /\ HasRentRoll
    /\ Get(analysis_results["rent_roll"].rent_analysis, "total_units", I(1)) = Zero

\* the dict UnderwritingAnalyzer.generate_underwriting_summary returns
underwriting_summary ==
    LET rent_analysis == analysis_results["rent_roll"].rent_analysis
        has_t12 == "t12" \in DOMAIN analysis_results
        expense_analysis == analysis_results["t12"].expense_analysis
        income_summary ==
            IF HasRentRoll
            THEN [gross_potential_income |-> Get(rent_analysis, "annual_gpi", Zero),
                  current_monthly_income |->
                      Get(rent_analysis, "current_monthly_income", Zero),
                  vacant_unit_potential |->
                      Mul(Get(rent_analysis, "vacant_unit_income", Zero), I(12)),
                  occupancy_rate |->
                      Mul(Div(Get(rent_analysis, "occupied_units", Zero),
                              Get(rent_analysis, "total_units", I(1))), I(100))]
            ELSE EmptyDict
        expense_summary ==
            IF has_t12 THEN expense_analysis.adjusted_expenses ELSE <<>>
        gpi == Get(income_summary, "gross_potential_income", Zero)
        vacancy == ItemGet(expense_summary, "vacancy", Zero)
        total_expenses ==
            IF has_t12 THEN expense_analysis.total_adjusted_expenses ELSE Zero
        egi == Sub(gpi, vacancy)
        noi_ == Sub(egi, total_expenses)
    IN  [property_info |-> property_info,
         income_summary |-> income_summary,
         expense_summary |-> expense_summary,
         has_total_expenses |-> has_t12,
         total_expenses |-> total_expenses,
         noi_analysis |->
            [gross_potential_income |-> gpi,
             vacancy_loss |-> vacancy,
             effective_gross_income |-> egi,
             total_expenses |-> total_expenses,
             net_operating_income |-> noi_,
             expense_ratio |->
                IF Gt(egi, Zero) THEN Mul(Div(total_expenses, egi), I(100))
                ELSE Zero],
         flags_and_recommendations |->
            IF HasRentRoll THEN analysis_results["rent_roll"].flags ELSE <<>>]

\* UnderwritingAnalyzer.generate_underwriting_summary()
generate_underwriting_summary ==
    /\ IF summary_raises
       THEN /\ analyzer_call' = AnalyzerCall("generate_underwriting_summary", TRUE)
            /\ UNCHANGED summary
       ELSE /\ analyzer_call' = AnalyzerCall("generate_underwriting_summary", FALSE)
            /\ summary' = underwriting_summary
    /\ UNCHANGED <<property_info, rent_roll_data, t12_data, analysis_results,
                   rule_runs>>

(***************************************************************************)
(* UnderwritingOutputGenerator: the underwriting summary table             *)
(***************************************************************************)
VARIABLES
    generator,       \* the fields of the UnderwritingOutputGenerator
    summary_df,      \* the rows generate_underwriting_summary last returned
    generator_call   \* the last call on the generator

generator_vars == <<generator, summary_df, generator_call>>


\* UnderwritingOutputGenerator.__init__
GeneratorInit ==
    /\ generator = [rent_roll_data |-> EmptyDict, t12_data |-> EmptyDict,
                    property_info |-> EmptyDict, flags_and_notes |-> <<>>,
                    income_analysis |-> EmptyDict, expense_analysis |-> EmptyDict,
                    noi_analysis |-> EmptyDict]
    /\ summary_df = <<>>
    /\ generator_call = "init"

\* UnderwritingOutputGenerator.load_analysis_data
load_analysis_data(rent_roll_analysis, t12_analysis, info, uw_summary) ==
    /\ generator' =
          [rent_roll_data |-> rent_roll_analysis,
           t12_data |-> t12_analysis,
           property_info |-> info,
           income_analysis |->
              IF "income_summary" \in DOMAIN uw_summary
              THEN uw_summary["income_summary"]
              ELSE generator.income_analysis,
           expense_analysis |->
              IF "expense_analysis" \in DOMAIN t12_analysis
              THEN t12_analysis["expense_analysis"]
              ELSE generator.expense_analysis,
           noi_analysis |->
              IF "noi_analysis" \in DOMAIN uw_summary
              THEN uw_summary["noi_analysis"]
              ELSE generator.noi_analysis,
           flags_and_notes |->
              IF "flags_and_recommendations" \in DOMAIN uw_summary
              THEN uw_summary["flags_and_recommendations"]
              ELSE generator.flags_and_notes]
    /\ generator_call' = "load_analysis_data"
    /\ UNCHANGED summary_df

\* UnderwritingOutputGenerator._create_summary_line, as the row the returned
\* DataFrame keeps of it (Line Item, $ Amount, % of EGI, Notes)
create_summary_line(line_item, amount, egi, notes) ==
    [line_item |-> line_item,
     amount |-> amount,
     percent_egi |-> IF Gt(egi, Zero) THEN Mul(Div(amount, egi), I(100)) ELSE Zero,
     notes |-> notes]

\* expense_key.replace('_', ' ').title()
ExpenseName ==
    ("vacancy" :> "Vacancy") @@ ("property_taxes" :> "Property Taxes") @@
    ("insurance" :> "Insurance") @@ ("electricity" :> "Electricity") @@
    ("water" :> "Water") @@ ("sewer" :> "Sewer") @@ ("trash" :> "Trash") @@
    ("repairs_maintenance" :> "Repairs Maintenance") @@ ("payroll" :> "Payroll") @@
    ("admin_fees" :> "Admin Fees") @@ ("management_fee" :> "Management Fee") @@
    ("replacement_reserves" :> "Replacement Reserves")

\* every adjusted expense gets a line, the zero amounts too
ShownAlways(amount) == TRUE

\* if amount > 0 (line 247)
Shown(amount) == Gt(amount, Zero)

\* the loop over adjusted_expenses.items() of generate_underwriting_summary
RECURSIVE ExpenseLines(_, _, _)
ExpenseLines(items, adjustments, egi) ==
    IF items = <<>> THEN <<>>
    ELSE (IF Shown(Head(items).amount)
          THEN << create_summary_line(
                      ExpenseName[Head(items).key], Head(items).amount, egi,
                      IF Head(items).key \in DOMAIN adjustments
                      THEN adjustments[Head(items).key].text
                      ELSE "No adjustment applied") >>
          ELSE <<>>)
         \o ExpenseLines(Tail(items), adjustments, egi)

\* the egi of generate_underwriting_summary (lines 213-215)
GuardedEgi ==
    LET egi == Get(generator.noi_analysis, "effective_gross_income", Zero)
    IN  IF egi = Zero THEN I(1) ELSE egi

\* the rows of UnderwritingOutputGenerator.generate_underwriting_summary
SummaryLines ==
    LET egi == GuardedEgi
        adjusted_expenses == Get(generator.expense_analysis, "adjusted_expenses", <<>>)
        adjustments == Get(generator.expense_analysis, "adjustments", EmptyDict)
        total_expenses ==
            Get(generator.expense_analysis, "total_adjusted_expenses", Zero)
    IN  << create_summary_line(
               "GROSS POTENTIAL INCOME",
               Get(generator.income_analysis, "gross_potential_income", Zero), egi,
               "Based on current rent roll analysis with vacant units at market rates"),
           create_summary_line(
               "Vacancy Loss",
               Neg(AbsR(Get(generator.noi_analysis, "vacancy_loss", Zero))), egi,
               "Applied 5% vacancy rate (higher of 5% or actuals)"),
           create_summary_line(
               "Other Income",
               Get(generator.income_analysis, "other_income", Zero), egi,
               "Used actual T12 totals for other income streams"),
           create_summary_line(
               "EFFECTIVE GROSS INCOME", egi, egi,
               "GPI minus vacancy loss plus other income") >>
        \o ExpenseLines(adjusted_expenses, adjustments, egi)
        \o << create_summary_line(
                  "TOTAL OPERATING EXPENSES", total_expenses, egi,
                  "Total of all adjusted operating expenses"),
              create_summary_line(
                  "NET OPERATING INCOME", Sub(egi, total_expenses), egi,
                  "EGI minus total operating expenses") >>

\* UnderwritingOutputGenerator.generate_underwriting_summary()
generate_summary_table ==
    /\ summary_df' = SummaryLines
    /\ generator_call' = "generate_underwriting_summary"
    /\ UNCHANGED generator

(***************************************************************************)
(* DocumentProcessor: the table normalizer                                 *)
(***************************************************************************)
VARIABLES
    processor_call   \* the last _clean_dataframe call: its frames and outcome

processor_vars == <<processor_call>>


\* a null cell (None / NaN) and a cell with text
NaN == "NaN"
Filled == "a"

\* no call of the processor yet
ProcessorInit ==
    processor_call = [op |-> "init", raised |-> FALSE,
                      thresholded |-> [columns |-> <<>>, rows |-> <<>>],
                      result |-> [columns |-> <<>>, rows |-> <<>>]]

\* DataFrame.empty: no row or no column
Empty(df) == Len(df.rows) = 0 \/ Len(df.columns) = 0

\* the number of non-null cells of a row
RECURSIVE NonNull(_)
NonNull(cells) ==
    IF cells = <<>> THEN 0
    ELSE (IF Head(cells) # NaN THEN 1 ELSE 0) + NonNull(Tail(cells))

\* the sub-sequence of s at the positions in keep, in order
RECURSIVE Pick(_, _, _)
Pick(s, keep, i) ==
    IF i > Len(s) THEN <<>>
    ELSE (IF i \in keep THEN <<s[i]>> ELSE <<>>) \o Pick(s, keep, i + 1)

\* df.dropna(how='all').dropna(axis=1, how='all')
DropEmpty(df) ==
    LET rows == SelectSeq(df.rows, LAMBDA row : NonNull(row.cells) > 0)
        keep == {c \in 1..Len(df.columns) :
                    \E i \in 1..Len(rows) : rows[i].cells[c] # NaN}
    IN  [columns |-> Pick(df.columns, keep, 1),
         rows |-> [i \in 1..Len(rows) |->
                      [rows[i] EXCEPT !.cells = Pick(rows[i].cells, keep, 1)]]]

\* the positions 1 .. len(df) - 1 of the rows equal to the first row
duplicate_indices(df) ==
    {p \in 1..(Len(df.rows) - 1) : df.rows[p + 1].cells = df.rows[1].cells}

\* df.drop(duplicate_indices) takes the positions as index labels: KeyError
\* when one of them is not a label of the frame
remove_duplicate_headers_raises(df) ==
    /\ ~Empty(df)
    /\ Len(df.rows) >= 2
    /\ \E p \in duplicate_indices(df) :
          \A i \in 1..Len(df.rows) : df.rows[i].idx # p

\* DocumentProcessor._remove_duplicate_headers, when it returns
remove_duplicate_headers(df) ==
    IF Empty(df) \/ Len(df.rows) < 2 THEN df
    ELSE [df EXCEPT !.rows =
             SelectSeq(df.rows, LAMBDA row : row.idx \notin duplicate_indices(df))]

\* DocumentProcessor._clean_column_name on the column names of the inputs
clean_column_name ==
    ("Unit #" :> "Unit ") @@ ("Rent ($)" :> "Rent ") @@ ("Status" :> "Status") @@
    (NaN :> "Unknown") @@ (" Sq. Ft." :> "Sq Ft") @@ ("Type" :> "Type")

\* max(1, int(len(df.columns) * 0.3))
threshold(columns) ==
    IF (3 * Len(columns)) \div 10 > 1 THEN (3 * Len(columns)) \div 10 ELSE 1

\* the frame the threshold step of _clean_dataframe receives
BeforeThreshold(df) ==
    LET deduplicated == remove_duplicate_headers(DropEmpty(df))
    IN  IF Empty(deduplicated) THEN deduplicated
        ELSE [deduplicated EXCEPT !.columns =
                 [c \in 1..Len(deduplicated.columns) |->
                     clean_column_name[deduplicated.columns[c]]]]

\* df.dropna(thresh=threshold)
DropSparse(df) ==
    IF Empty(df) THEN df
    ELSE [df EXCEPT !.rows =
             SelectSeq(df.rows,
                       LAMBDA row : NonNull(row.cells) >= threshold(df.columns))]

\* DocumentProcessor._clean_dataframe(df)
clean_dataframe(df) ==
    processor_call' =
        IF Empty(df)
        THEN [op |-> "clean_dataframe", raised |-> FALSE, thresholded |-> df,
              result |-> df]
        ELSE IF remove_duplicate_headers_raises(DropEmpty(df))
        THEN [op |-> "clean_dataframe", raised |-> TRUE, thresholded |-> df,
              result |-> df]
        ELSE [op |-> "clean_dataframe", raised |-> FALSE,
              thresholded |-> BeforeThreshold(df),
              result |-> DropSparse(BeforeThreshold(df))]

(***************************************************************************)
(* The web application: src/main.py                                        *)
(*                                                                         *)
(* Requests and the background tasks run on one event loop: a handler or   *)
(* a task runs alone from one await to the next, and any request may be    *)
(* served while a task is suspended in asyncio.sleep.                      *)
(***************************************************************************)
VARIABLES
    imported,              \* the module has been imported (lines 22-53 ran)
    COMPONENTS_AVAILABLE,  \* the flag the import of the components sets
    processing_sessions,   \* the keys of the module's dict; the value under
                           \* key k is the object status_objects[k]
    status_objects,        \* the ProcessingStatus object created for each id
    tasks,                 \* the background task of each id: its position
                           \* and its locals
    cleaned,               \* the ids a DELETE request has removed
    server_call            \* the last request served and its response

server_vars == <<imported, COMPONENTS_AVAILABLE, processing_sessions,
                 status_objects, tasks, cleaned, server_call>>

\* the uuid4 values upload_documents can draw
SessionIds == {"s1", "s2"}

\* the names uploaded files can have
FileNames == {"rent_roll.pdf", "t12.pdf", "notes.pdf"}

\* the branch of lines 224-227 a lowercased file name takes: 'rent' or 'rr_'
\* in the name, else 't12' or 'income' in the name, else neither
doc_type ==
    [f \in FileNames |->
        CASE f = "rent_roll.pdf" -> "RENT_ROLL"
          [] f = "t12.pdf" -> "T12"
          [] OTHER -> "none"]

NoObject == [status |-> "none"]

NoTask == [pc |-> "none", at |-> 0, uploaded_files |-> {},
           rent_roll_data |-> "None", t12_data |-> "None", error |-> "None"]

ServerInit ==
    /\ imported = FALSE
    /\ COMPONENTS_AVAILABLE = FALSE
    /\ processing_sessions = {}
    /\ status_objects = [id \in SessionIds |-> NoObject]
    /\ tasks = [id \in SessionIds |-> NoTask]
    /\ cleaned = {}
    /\ server_call = [op |-> "init", session_id |-> "None", status_code |-> 0,
                      body |-> "None"]

\* the object upload_documents stores under a new session id
ProcessingStatus(id) ==
    [session_id |-> id, status |-> "waiting", current_step |-> 0,
     total_steps |-> 7, step_name |-> "Initializing...",
     progress_percentage |-> Zero,
     message |-> "Preparing to process documents",
     results |-> "None", error_message |-> "None"]

\* the step names and messages of the seven update_progress calls
StepNames ==
    <<"Document Processing", "Data Analysis Setup", "Rent Roll Analysis",
      "T12 Analysis", "Underwriting Summary", "Excel Generation",
      "PDF Generation">>

StepMessages ==
    <<"Extracting data from uploaded documents...",
      "Initializing underwriting analyzer...",
      "Analyzing rental income and unit data...",
      "Processing operating statement and expenses...",
      "Generating comprehensive analysis...",
      "Creating professional underwriting package...",
      "Creating lender-ready PDF package...">>

\* update_progress: the objects after the call; nothing changes when the
\* session id is no longer a key
update_progress(objects, keys, id, step) ==
    IF id \in keys
    THEN [objects EXCEPT ![id] =
            [@ EXCEPT !.current_step = step,
                      !.total_steps = 7,
                      !.step_name = StepNames[step],
                      !.progress_percentage = Mul(R(step, 7), I(100)),
                      !.message = StepMessages[step]]]
    ELSE objects

\* what the try block does from the task's position to its next await or to
\* its end: the exceptions it can raise, "ok" when it can run through
SegmentOutcomes(id) ==
    LET t == tasks[id]
    IN  CASE t.at = 0 ->
               IF ~COMPONENTS_AVAILABLE
               THEN {"Document processing components not available"}
               ELSE IF id \notin processing_sessions
               THEN {"KeyError"}
               ELSE {"ok"}
          [] t.at = 1 ->
               \* process_document takes no doc_type argument
               IF \E f \in t.uploaded_files : doc_type[f] # "none"
               THEN {"TypeError: process_document"}
               ELSE {"ok"}
          [] t.at = 2 ->
               \* set_property_info takes one positional dict, no keywords
               {"TypeError: set_property_info"}
          [] t.at = 3 ->
               IF t.rent_roll_data # "None"
               THEN {"AttributeError: analyze_rent_roll"}
               ELSE {"ok"}
          [] t.at = 4 ->
               IF t.t12_data # "None"
               THEN {"AttributeError: analyze_t12"}
               ELSE {"ok"}
          [] t.at = 5 -> {"ok"}
          [] t.at = 6 -> {"ok", "OSError"}   \* export_to_excel writes a file
          [] OTHER -> {"ok"}

\* the except block of the task: the session is looked up again by its key
Handler(id, e) ==
    IF id \in processing_sessions
    THEN /\ status_objects' =
              [status_objects EXCEPT ![id] =
                  [@ EXCEPT !.status = "error",
                            !.error_message = e,
                            !.message = "Processing failed"]]
         /\ tasks' = [tasks EXCEPT ![id] = [@ EXCEPT !.pc = "returned",
                                                      !.error = e]]
    ELSE \* the lookup raises KeyError out of the except block
         /\ status_objects' = status_objects
         /\ tasks' = [tasks EXCEPT ![id] = [@ EXCEPT !.pc = "unhandled",
                                                      !.error = "KeyError"]]

\* the try block running through from position at to the next await: the
\* local variable session is the object created for the id, whether or not
\* the id is still a key
RunThrough(id) ==
    LET t == tasks[id]
    IN  CASE t.at = 0 ->
               /\ status_objects' =
                    update_progress(
                        [status_objects EXCEPT ![id].status = "processing"],
                        processing_sessions, id, 1)
               /\ tasks' = [tasks EXCEPT ![id] = [@ EXCEPT !.pc = "await",
                                                            !.at = 1]]
          [] t.at \in 1..6 ->
               /\ status_objects' =
                    update_progress(status_objects, processing_sessions, id,
                                    t.at + 1)
               /\ tasks' = [tasks EXCEPT ![id] = [@ EXCEPT !.at = t.at + 1]]
          [] OTHER ->
               /\ status_objects' =
                    [status_objects EXCEPT ![id] =
                        [@ EXCEPT !.status = "completed",
                                  !.current_step = 7,
                                  !.progress_percentage = I(100),
                                  !.step_name = "Processing Complete",
                                  !.message =
                                      "All documents processed successfully!",
                                  !.results = "results"]]
               /\ tasks' = [tasks EXCEPT ![id] = [@ EXCEPT !.pc = "returned"]]

\* one step of process_documents_background: from its start or from an
\* await to the next await, to its return or to an exception leaving it
process_documents_background(id) ==
    /\ tasks[id].pc \in {"scheduled", "await"}
    /\ \E e \in SegmentOutcomes(id) :
          IF e = "ok" THEN RunThrough(id) ELSE Handler(id, e)
    /\ UNCHANGED <<imported, COMPONENTS_AVAILABLE, processing_sessions,
                   cleaned, server_call>>

\* the import of the module: the components import or they do not
import_components ==
    /\ ~imported
    /\ imported' = TRUE
    /\ COMPONENTS_AVAILABLE' \in BOOLEAN
    /\ UNCHANGED <<processing_sessions, status_objects, tasks, cleaned,
                   server_call>>

\* POST /api/upload: a new id, its status object and its background task
upload_documents(id, files) ==
    /\ imported
    /\ tasks[id].pc = "none"
    /\ IF files = {}
       THEN /\ server_call' = [op |-> "upload_documents",
                               session_id |-> "None", status_code |-> 400,
                               body |-> "No files uploaded"]
            /\ UNCHANGED <<processing_sessions, status_objects, tasks>>
       ELSE /\ processing_sessions' = processing_sessions \cup {id}
            /\ status_objects' =
                  [status_objects EXCEPT ![id] = ProcessingStatus(id)]
            /\ tasks' = [tasks EXCEPT ![id] =
                            [NoTask EXCEPT !.pc = "scheduled",
                                           !.uploaded_files = files]]
            /\ server_call' = [op |-> "upload_documents", session_id |-> id,
                               status_code |-> 200,
                               body |-> "Processing started"]
    /\ UNCHANGED <<imported, COMPONENTS_AVAILABLE, cleaned>>

\* GET /api/status/{session_id}
get_processing_status(id) ==
    /\ imported
    /\ server_call' =
          IF id \notin processing_sessions
          THEN [op |-> "get_processing_status", session_id |-> id,
                status_code |-> 404, body |-> "Session not found"]
          ELSE [op |-> "get_processing_status", session_id |-> id,
                status_code |-> 200, body |-> status_objects[id].status]
    /\ UNCHANGED <<imported, COMPONENTS_AVAILABLE, processing_sessions,
                   status_objects, tasks, cleaned>>

\* GET /api/results/{session_id}
get_results(id) ==
    /\ imported
    /\ server_call' =
          IF id \notin processing_sessions
          THEN [op |-> "get_results", session_id |-> id,
                status_code |-> 404, body |-> "Session not found"]
          ELSE IF status_objects[id].status # "completed"
          THEN [op |-> "get_results", session_id |-> id,
                status_code |-> 400, body |-> "Processing not completed"]
          ELSE [op |-> "get_results", session_id |-> id,
                status_code |-> 200, body |-> status_objects[id].results]
    /\ UNCHANGED <<imported, COMPONENTS_AVAILABLE, processing_sessions,
                   status_objects, tasks, cleaned>>

\* DELETE /api/cleanup/{session_id}
cleanup_session(id) ==
    /\ imported
    /\ IF id \in processing_sessions
       THEN /\ processing_sessions' = processing_sessions \ {id}
            /\ cleaned' = cleaned \cup {id}
            /\ server_call' = [op |-> "cleanup_session", session_id |-> id,
                               status_code |-> 200,
                               body |-> "Session cleaned up"]
       ELSE /\ server_call' = [op |-> "cleanup_session", session_id |-> id,
                               status_code |-> 404,
                               body |-> "Session not found"]
            /\ UNCHANGED <<processing_sessions, cleaned>>
    /\ UNCHANGED <<imported, COMPONENTS_AVAILABLE, status_objects, tasks>>

(***************************************************************************)
(* A caller comparing the sizing of successive calculations                *)
(***************************************************************************)
VARIABLES
    held   \* the sizing of the first list returned since the property data
           \* were set, with the term and the flag it was computed under

caller_vars == <<held>>

vars == <<engine_vars, analyzer_vars, generator_vars, processor_vars,
          server_vars, caller_vars>>

NoSizing == [sizing |-> {}, term |-> "None", step_down_prepay |-> FALSE]

CallerInit == held = NoSizing

\* what a list of scenarios says about sizing: program, tier, loan_amount, ltv,
\* debt_yield and constraint_binding of each scenario
Sizing(scenarios) ==
    { [loan_type |-> scenarios[i].loan_type,
       tier_name |-> scenarios[i].tier_name,
       loan_amount |-> scenarios[i].loan_amount,
       ltv |-> scenarios[i].ltv,
       debt_yield |-> scenarios[i].debt_yield,
       constraint_binding |-> scenarios[i].constraint_binding] :
        i \in 1..Len(scenarios) }

\* the variables an action of one object leaves alone
outside_engine ==
    <<analyzer_vars, generator_vars, processor_vars, server_vars, caller_vars>>
outside_analyzer ==
    <<engine_vars, generator_vars, processor_vars, server_vars, caller_vars>>
outside_generator ==
    <<engine_vars, analyzer_vars, processor_vars, server_vars, caller_vars>>
outside_processor ==
    <<engine_vars, analyzer_vars, generator_vars, server_vars, caller_vars>>
outside_engine_and_caller ==
    <<analyzer_vars, generator_vars, processor_vars, server_vars>>
outside_server ==
    <<engine_vars, analyzer_vars, generator_vars, processor_vars, caller_vars>>

(***************************************************************************)
(* Rent rolls handed to load_rent_roll                                     *)
(***************************************************************************)
\* the largest number of rows of a rent roll
MaxUnits == 3

RentCells == {None, I(0), I(700), I(1300), I(1400)}
TypeCells == {"1BR", "2BR"}
StatusCells == {"Occupied", "Vacant"}
SqFtCells == {I(800)}

RentRollColumns ==
    { <<"Unit", "Rent", "Type", "Status", "SqFt">>,
      <<"Unit", "Rent", "Status", "SqFt">>,
      <<"Unit", "Rent", "Type">>,
      <<"Unit", "Type", "Status", "SqFt">> }

HasColumn(columns, c) == \E i \in 1..Len(columns) : columns[i] = c

\* the rows a table with these columns can hold (a cell of an absent column is
\* never read)
RowCells(columns) ==
    { [idx |-> 0, clean_rent |-> None, Unit |-> 0, Rent |-> r, Type |-> t,
       Status |-> s, SqFt |-> q] :
        r \in IF HasColumn(columns, "Rent") THEN RentCells ELSE {None},
        t \in IF HasColumn(columns, "Type") THEN TypeCells ELSE {"1BR"},
        s \in IF HasColumn(columns, "Status") THEN StatusCells ELSE {"Occupied"},
        q \in IF HasColumn(columns, "SqFt") THEN SqFtCells ELSE {None} }

\* a DataFrame with a default RangeIndex
Table(columns, cells) ==
    [columns |-> columns, loaded |-> TRUE,
     rows |-> [i \in 1..Len(cells) |-> [cells[i] EXCEPT !.idx = i - 1, !.Unit = i]]]

(***************************************************************************)
(* Property info, rent rolls and T12s handed to the analyzer               *)
(***************************************************************************)
\* a key of the info dict: absent (<<>>) or present with a value (<<v>>)
KeyIf(key, opt) == IF opt = <<>> THEN EmptyDict ELSE (key :> opt[1])

PropertyInfoOf(age, units, transaction) ==
    KeyIf("property_age", age) @@ KeyIf("unit_count", units)
        @@ KeyIf("transaction_type", transaction)

\* a rent roll row of which only the Rent cell matters
RentRow(r) ==
    [idx |-> 0, clean_rent |-> None, Unit |-> 0, Rent |-> r, Type |-> "1BR",
     Status |-> "Occupied", SqFt |-> None]

StatusRow(r, s) == [RentRow(r) EXCEPT !.Status = s]

\* rows whose status holds an occupied keyword, a vacant keyword or neither,
\* with and without a rent
StatusSweepRows ==
    { StatusRow(r, st) : r \in {I(0), I(700)},
                         st \in {"Occupied", "Rented", "Vacant", "Down"} }

T12Table(columns, rows) == [columns |-> columns, rows |-> rows, loaded |-> TRUE]

LineItem(label, values) == [label |-> label, values |-> values]

\* a T12 with at most one line per label, in the order of labels
LineItems(labels, cells) ==
    SelectSeq([i \in 1..Len(labels) |-> LineItem(labels[i], cells[i])],
              LAMBDA row : row.values # <<>>)

\* the age and unit sweep of the expense rules
AgeInputs ==
    {<<>>, <<0>>, <<9>>, <<10>>, <<25>>, <<49>>, <<50>>, <<99>>, <<100>>, <<120>>}
UnitCountInputs == {<<>>, <<1>>, <<100>>}
TransactionInputs == {<<>>, <<"acquisition">>}

RuleLabels == <<"Repairs & Maintenance", "Payroll">>
RuleCells ==
    {<<>>} \cup {<<I(a)>> : a \in {400, 700, 1200, 1500, 2000, 50000, 90000, 200000}}

\* administrative actuals on and around the minimum of 1,000 and the caps of
\* 400 and 40,000
AdminCells ==
    {<<I(a)>> : a \in {0, 300, 400, 500, 999, 1000, 1001, 5000, 40000, 40001, 90000}}

RuleRentRolls == { Table(<<"Unit", "Rent">>, <<RentRow(I(1300))>>) }

\* the gross potential income sweep of the summary: 12 x rent sits on, just
\* above and between the management fee boundaries
SummaryRents ==
    {I(1000), R(125000, 3), I(41667), I(62500), I(62501), R(250000, 3),
     I(83334), I(125000), I(125001), R(500000, 3), I(166667)}

SummaryRentRolls ==
    { Table(<<"Unit", "Rent">>, <<RentRow(r)>>) : r \in SummaryRents }
    \cup { Table(<<"Unit", "Rent">>, <<>>),
           Table(<<"Unit", "Type">>, <<RentRow(None)>>),
           Table(<<"Unit", "Rent", "Type", "Status">>,
                 <<StatusRow(I(1300), "Occupied"), StatusRow(I(700), "Vacant")>>) }

SummaryInfos ==
    { EmptyDict, PropertyInfoOf(<<25>>, <<100>>, <<"refinance">>) }

SummaryLabels == <<"Other Income", "Vacancy Loss", "Management Fee">>
SummaryCells ==
    {<<>>} \cup {<<I(a)>> : a \in {0, 12000, -3000, 200000}}

\* the inputs of the free-order runs
AnalyzerInfos ==
    { PropertyInfoOf(<<30>>, <<10>>, <<>>),
      PropertyInfoOf(<<55>>, <<100>>, <<"acquisition">>) }

AnalyzerRentRolls ==
    { Table(<<"Unit", "Rent">>, <<RentRow(I(1300))>>),
      Table(<<"Unit", "Rent">>, <<RentRow(I(62500))>>) }

AnalyzerT12s ==
    { T12Table(<<"Line Item", "Notes", "Amount">>,
               << LineItem("Property Taxes", <<Text, I(40000)>>),
                  LineItem("Management Fee", <<Text, I(30000)>>),
                  LineItem("Total Operating Expenses", <<Text, I(70000)>>) >>),
      T12Table(<<"Line Item", "Amount">>,
               << LineItem("Vacancy Loss", <<I(-500)>>),
                  LineItem("Payroll", <<I(20000)>>),
                  LineItem("Payroll Taxes", <<I(9000)>>),
                  LineItem("Water & Sewer", <<Text>>) >>) }

\* the largest number of load_t12 calls of a free-order run
MaxRuleRuns == 3

SetPropertyData ==
    /\ \E n \in NoiInputs, c \in CapRateInputs, v \in CapValueInputs :
          set_property_data(n, c, v)
    /\ UNCHANGED outside_engine

SetTreasuryTerm ==
    /\ \E t \in TreasuryTerm : set_treasury_term(t)
    /\ UNCHANGED outside_engine

CalculateLoanScenarios ==
    /\ \E sd \in BOOLEAN : calculate_loan_scenarios(sd)
    /\ UNCHANGED outside_engine

(***************************************************************************)
(* Specifications                                                          *)
(***************************************************************************)
\* a fresh engine and a fresh analyzer
Init ==
    /\ EngineInit /\ AnalyzerInit /\ GeneratorInit /\ ProcessorInit
    /\ ServerInit /\ CallerInit

\* the loan sizing engine under any sequence of calls
EngineNext == SetPropertyData \/ SetTreasuryTerm \/ CalculateLoanScenarios

EngineSpec == Init /\ [][EngineNext]_vars

\* the engine with a rate table that is updated between calls
TreasuryNoiInputs == {I(0), I(7500000)}
TreasuryRateInputs == {I(4), R(525, 100)}

TreasurySetPropertyData ==
    /\ \E n \in TreasuryNoiInputs : set_property_data(n, R(6, 100), None)
    /\ UNCHANGED outside_engine

TreasurySetTerm ==
    /\ \E t \in TreasuryTerm : set_treasury_term(t)
    /\ UNCHANGED outside_engine

TreasuryUpdateRate ==
    /\ \E t \in {"10Y", "15Y", "20Y"}, r \in TreasuryRateInputs :
          update_treasury_rate(t, r)
    /\ UNCHANGED outside_engine

TreasuryCalculate ==
    /\ \E sd \in BOOLEAN : calculate_loan_scenarios(sd)
    /\ UNCHANGED outside_engine

TreasuryNext ==
    TreasurySetPropertyData \/ TreasurySetTerm \/ TreasuryUpdateRate
        \/ TreasuryCalculate

TreasurySpec == Init /\ [][TreasuryNext]_vars

\* the extracted tables handed to _clean_dataframe: up to MaxColumns columns
\* and MaxTableRows rows under a default RangeIndex, each row filled from its
\* left or from its right end and null elsewhere
MaxColumns == 7
MaxTableRows == 3
ColumnNames == <<"Unit #", NaN, "Rent ($)", "Status", " Sq. Ft.", "Type">>
ColumnName(c) == ColumnNames[((c - 1) % Len(ColumnNames)) + 1]

RowPatterns(n) ==
    {[c \in 1..n |-> IF c <= f THEN Filled ELSE NaN] : f \in 0..n}
        \cup {[c \in 1..n |-> IF c > f THEN Filled ELSE NaN] : f \in 0..n}

CleanDataframe ==
    /\ processor_call.op = "init"
    /\ \E n \in 0..MaxColumns, k \in 0..MaxTableRows :
          \E cells \in [1..k -> RowPatterns(n)] :
              clean_dataframe([columns |-> [c \in 1..n |-> ColumnName(c)],
                               rows |-> [i \in 1..k |->
                                            [idx |-> i - 1, cells |-> cells[i]]]])
    /\ UNCHANGED outside_processor

ProcessorNext == CleanDataframe

ProcessorSpec == Init /\ [][ProcessorNext]_vars

\* the web application serving uploads, status, results and cleanup requests
\* while the background tasks run from await to await
ImportComponents == import_components /\ UNCHANGED outside_server

UploadDocuments ==
    /\ \E id \in SessionIds : \E files \in SUBSET FileNames :
          upload_documents(id, files)
    /\ UNCHANGED outside_server

ProcessDocumentsBackground ==
    /\ \E id \in SessionIds : process_documents_background(id)
    /\ UNCHANGED outside_server

GetProcessingStatus ==
    /\ \E id \in SessionIds : get_processing_status(id)
    /\ UNCHANGED outside_server

GetResults ==
    /\ \E id \in SessionIds : get_results(id)
    /\ UNCHANGED outside_server

CleanupSession ==
    /\ \E id \in SessionIds : cleanup_session(id)
    /\ UNCHANGED outside_server

ServerNext ==
    \/ ImportComponents
    \/ UploadDocuments
    \/ ProcessDocumentsBackground
    \/ GetProcessingStatus
    \/ GetResults
    \/ CleanupSession

ServerSpec == Init /\ [][ServerNext]_vars

\* the engine under a caller that sets the property data, then calculates
\* under every term and flag and holds the first list returned
SizingNoiInputs == {I(0), I(1400000), I(7500000), I(30000000)}
SizingValueInputs == {I(8000000), I(40000000)}

SizingSetPropertyData ==
    /\ \E n \in SizingNoiInputs, v \in SizingValueInputs :
          set_property_data(n, None, v)
    /\ held' = NoSizing
    /\ UNCHANGED outside_engine_and_caller

SizingSetTreasuryTerm ==
    /\ \E t \in TreasuryTerm : set_treasury_term(t)
    /\ UNCHANGED outside_engine

SizingCalculate ==
    /\ \E sd \in BOOLEAN : calculate_loan_scenarios(sd)
    /\ held' = IF held = NoSizing /\ ~engine_call'.raised
               THEN [sizing |-> Sizing(engine_call'.scenarios),
                     term |-> treasury_term,
                     step_down_prepay |-> engine_call'.step_down_prepay]
               ELSE held
    /\ UNCHANGED outside_engine_and_caller

SizingNext == SizingSetPropertyData \/ SizingSetTreasuryTerm \/ SizingCalculate

SizingSpec == Init /\ [][SizingNext]_vars

\* load_rent_roll applied once to each rent roll, on a fresh analyzer
LoadRentRoll ==
    /\ analyzer_call.op = "init"
    /\ \E columns \in RentRollColumns, k \in 0..MaxUnits :
          \E cells \in [1..k -> RowCells(columns)] :
              load_rent_roll(Table(columns, cells))
    /\ UNCHANGED outside_analyzer

\* load_rent_roll applied once to each two-unit rent roll of the status sweep
LoadStatusRentRoll ==
    /\ analyzer_call.op = "init"
    /\ \E cells \in [1..2 -> StatusSweepRows] :
          load_rent_roll(Table(<<"Unit", "Rent", "Status">>, cells))
    /\ UNCHANGED outside_analyzer

RentRollNext == LoadRentRoll \/ LoadStatusRentRoll

RentRollSpec == Init /\ [][RentRollNext]_vars

\* the last call was one of ops and returned
After(ops) == analyzer_call.op \in ops /\ ~analyzer_call.raised

\* the workflow of test_processor.py over the age and unit sweep: property
\* info, then the rent roll if there is one, then the T12, then the summary
RulesSetPropertyInfo ==
    /\ After({"init"})
    /\ \E age \in AgeInputs, units \in UnitCountInputs, t \in TransactionInputs :
          set_property_info(PropertyInfoOf(age, units, t))
    /\ UNCHANGED outside_analyzer

RulesLoadRentRoll ==
    /\ After({"set_property_info"})
    /\ \E df \in RuleRentRolls : load_rent_roll(df)
    /\ UNCHANGED outside_analyzer

RulesLoadT12 ==
    /\ After({"set_property_info", "load_rent_roll"})
    /\ \E cells \in [1..Len(RuleLabels) -> RuleCells] :
          load_t12(T12Table(<<"Line Item", "Amount">>, LineItems(RuleLabels, cells)))
    /\ UNCHANGED outside_analyzer

\* the same step with a T12 whose only line is the administrative expense
RulesLoadAdminT12 ==
    /\ After({"set_property_info", "load_rent_roll"})
    /\ \E cell \in AdminCells :
          load_t12(T12Table(<<"Line Item", "Amount">>,
                            LineItems(<<"Administrative">>, <<cell>>)))
    /\ UNCHANGED outside_analyzer

RulesGenerateSummary ==
    /\ After({"set_property_info", "load_rent_roll", "load_t12"})
    /\ generate_underwriting_summary
    /\ UNCHANGED outside_analyzer

ExpenseRulesNext ==
    RulesSetPropertyInfo \/ RulesLoadRentRoll \/ RulesLoadT12 \/ RulesLoadAdminT12
        \/ RulesGenerateSummary

ExpenseRulesSpec == Init /\ [][ExpenseRulesNext]_vars

\* the same workflow over the gross potential income sweep
SummarySetPropertyInfo ==
    /\ After({"init"})
    /\ \E info \in SummaryInfos : set_property_info(info)
    /\ UNCHANGED outside_analyzer

SummaryLoadRentRoll ==
    /\ After({"set_property_info"})
    /\ \E df \in SummaryRentRolls : load_rent_roll(df)
    /\ UNCHANGED outside_analyzer

SummaryLoadT12 ==
    /\ After({"set_property_info", "load_rent_roll"})
    /\ \E cells \in [1..Len(SummaryLabels) -> SummaryCells] :
          load_t12(T12Table(<<"Line Item", "Amount">>,
                            LineItems(SummaryLabels, cells)))
    /\ UNCHANGED outside_analyzer

SummaryGenerate ==
    /\ After({"set_property_info", "load_rent_roll", "load_t12"})
    /\ generate_underwriting_summary
    /\ UNCHANGED outside_analyzer

SummaryNext ==
    SummarySetPropertyInfo \/ SummaryLoadRentRoll \/ SummaryLoadT12 \/ SummaryGenerate

SummarySpec == Init /\ [][SummaryNext]_vars

\* the analyses a caller hands to load_analysis_data with the analyzer's
\* summary: main.py passes the analyzer's T12 analysis, test_processor.py the
\* document processor's result, which has no expense analysis
T12Analyses ==
    { Get(analysis_results, "t12", EmptyDict), EmptyDict }

\* the summary workflow followed by the output generator
OutputLoadAnalysisData ==
    /\ After({"generate_underwriting_summary"})
    /\ generator_call = "init"
    /\ \E t12_analysis \in T12Analyses :
          load_analysis_data(Get(analysis_results, "rent_roll", EmptyDict),
                             t12_analysis, property_info, summary)
    /\ UNCHANGED outside_generator

OutputGenerateSummary ==
    /\ generator_call = "load_analysis_data"
    /\ generate_summary_table
    /\ UNCHANGED outside_generator

OutputNext ==
    \/ SummarySetPropertyInfo
    \/ SummaryLoadRentRoll
    \/ SummaryLoadT12
    \/ SummaryGenerate
    \/ OutputLoadAnalysisData
    \/ OutputGenerateSummary

OutputSpec == Init /\ [][OutputNext]_vars

\* set_property_info, load_rent_roll and load_t12 in any order and number
AnalyzerSetPropertyInfo ==
    /\ \E info \in AnalyzerInfos : set_property_info(info)
    /\ UNCHANGED outside_analyzer

AnalyzerLoadRentRoll ==
    /\ \E df \in AnalyzerRentRolls : load_rent_roll(df)
    /\ UNCHANGED outside_analyzer

AnalyzerLoadT12 ==
    /\ Len(rule_runs) < MaxRuleRuns
    /\ \E df \in AnalyzerT12s : load_t12(df)
    /\ UNCHANGED outside_analyzer

AnalyzerNext == AnalyzerSetPropertyInfo \/ AnalyzerLoadRentRoll \/ AnalyzerLoadT12

AnalyzerSpec == Init /\ [][AnalyzerNext]_vars



(***************************************************************************)
(* Claims about the loan sizing engine                                     *)
(***************************************************************************)
\* the program/tier combinations and their constraint sets, as specified
ClaimPrograms ==
    { [loan_type |-> "fannie_freddie", tier_name |-> "Tier 2", max_ltv |-> R(75, 100),
       min_dscr |-> R(125, 100), min_dy |-> R(8, 100), min_loan |-> I(1000000)],
      [loan_type |-> "fannie_freddie", tier_name |-> "Tier 3", max_ltv |-> R(65, 100),
       min_dscr |-> R(135, 100), min_dy |-> R(8, 100), min_loan |-> I(1000000)],
      [loan_type |-> "fannie_freddie", tier_name |-> "Tier 4", max_ltv |-> R(55, 100),
       min_dscr |-> R(145, 100), min_dy |-> R(8, 100), min_loan |-> I(1000000)],
      [loan_type |-> "cmbs", tier_name |-> "None", max_ltv |-> R(75, 100),
       min_dscr |-> R(125, 100), min_dy |-> R(9, 100), min_loan |-> I(5000000)],
      [loan_type |-> "debt_fund", tier_name |-> "None", max_ltv |-> R(80, 100),
       min_dscr |-> R(95, 100), min_dy |-> None, min_loan |-> I(20000000)] }

\* min(LTV ceiling, DSCR ceiling, debt-yield ceiling) of a program for the
\* engine's current NOI and value
ClaimSizedAmount(p) ==
    LET ltv_ceiling == Mul(property_value, p.max_ltv)
        dscr_ceiling == Div(noi, p.min_dscr)
        dy_ceiling == IF p.min_dy = None THEN Inf ELSE Div(noi, p.min_dy)
        least == CHOOSE m \in {ltv_ceiling, dscr_ceiling, dy_ceiling} :
                    \A c \in {ltv_ceiling, dscr_ceiling, dy_ceiling} : Le(m, c)
    IN  least

ClaimProgramOf(s) ==
    CHOOSE p \in ClaimPrograms :
        p.loan_type = s.loan_type /\ p.tier_name = s.tier_name

Returned == engine_call.op = "calculate_loan_scenarios" /\ ~engine_call.raised

Emitted == {engine_call.scenarios[i] : i \in 1..Len(engine_call.scenarios)}

\* C1: every scenario returned by calculate_loan_scenarios has loan_amount =
\* min(value x maxLTV, NOI / minDSCR, NOI / minDebtYield or +infinity) with the
\* tier's maxLTV and minDSCR for Fannie/Freddie, and loan_amount >= the program's
\* minimum; a program/tier sized below its minimum is absent from the list.
C1_LoanAmountIsMinAndAboveMinimum ==
    Returned =>
        /\ \A s \in Emitted :
              /\ \E p \in ClaimPrograms :
                    p.loan_type = s.loan_type /\ p.tier_name = s.tier_name
              /\ s.loan_amount = ClaimSizedAmount(ClaimProgramOf(s))
              /\ Ge(s.loan_amount, ClaimProgramOf(s).min_loan)
        /\ \A p \in ClaimPrograms :
              Lt(ClaimSizedAmount(p), p.min_loan) =>
                  ~\E s \in Emitted :
                      s.loan_type = p.loan_type /\ s.tier_name = p.tier_name

\* C1 witness: a returned list that holds a scenario while another program/tier,
\* which passed the value pre-check, sized below its minimum and is absent
C1_Witness ==
    /\ Returned
    /\ Emitted # {}
    /\ \E p \in ClaimPrograms :
          /\ Ge(Mul(property_value, p.max_ltv), p.min_loan)
          /\ Lt(ClaimSizedAmount(p), p.min_loan)

\* C2 as stated: the returned list is strictly descending by loan amount
C2_StrictlyDescending ==
    Returned =>
        \A i \in 1..(Len(engine_call.scenarios) - 1) :
            Gt(engine_call.scenarios[i].loan_amount,
               engine_call.scenarios[i + 1].loan_amount)

\* C2 (amended): the returned list is in non-increasing order of loan amount:
\* each scenario's amount is at least the next one's (equal amounts occur)
C2_NonIncreasing ==
    Returned =>
        \A i \in 1..(Len(engine_call.scenarios) - 1) :
            Ge(engine_call.scenarios[i].loan_amount,
               engine_call.scenarios[i + 1].loan_amount)

\* C2 witness: a returned list with two adjacent equal amounts and a strict drop
C2_Witness ==
    /\ Returned
    /\ \E i \in 1..(Len(engine_call.scenarios) - 1) :
          engine_call.scenarios[i].loan_amount
              = engine_call.scenarios[i + 1].loan_amount
    /\ \E i \in 1..(Len(engine_call.scenarios) - 1) :
          Gt(engine_call.scenarios[i].loan_amount,
             engine_call.scenarios[i + 1].loan_amount)

\* C3: whenever the engine's NOI <= 0 or property value <= 0,
\* calculate_loan_scenarios raises and returns no list (never an empty list)
C3_InvalidStateRaises ==
    (engine_call.op = "calculate_loan_scenarios"
        /\ (noi.n <= 0 \/ property_value.n <= 0))
    => engine_call.raised

\* C3 witness: the call raised with a positive NOI and a property value of 0
C3_Witness ==
    /\ engine_call.op = "calculate_loan_scenarios"
    /\ engine_call.raised
    /\ noi.n > 0
    /\ property_value.n = 0


\* C11: with NOI 500,000 at a 6 % cap rate (value 25,000,000 / 3) Tier 2 sizes
\* to the DSCR ceiling 400,000 and the returned list holds no Fannie/Freddie
\* and no Debt Fund scenario; in every returned list a program appears only if
\* its sized loan amount reaches its minimum loan amount.
C11_ProgramsBelowMinimumExcluded ==
    Returned =>
        /\ (noi = I(500000) /\ property_value = R(25000000, 3)) =>
              /\ \A p \in ClaimPrograms :
                    (p.loan_type = "fannie_freddie" /\ p.tier_name = "Tier 2")
                        => ClaimSizedAmount(p) = I(400000)
              /\ \A s \in Emitted :
                    s.loan_type \notin {"fannie_freddie", "debt_fund"}
        /\ \A s \in Emitted :
              \A p \in ClaimPrograms :
                  (p.loan_type = s.loan_type /\ p.tier_name = s.tier_name)
                      => Ge(ClaimSizedAmount(p), p.min_loan)

\* C11 witness: the example of the source was sized and the call returned
C11_Witness ==
    /\ Returned
    /\ noi = I(500000)
    /\ cap_rate = R(6, 100)
    /\ property_value = R(25000000, 3)

\* the mean of the 10-year and 20-year entries of the rate table
ClaimMeanRate == Div(Add(treasury_rates["10Y"], treasury_rates["20Y"]), I(2))

\* C12: whenever the treasury term is 15Y, get_treasury_rate gives, and every
\* emitted scenario records, the arithmetic mean of the 10-year and 20-year
\* entries of the rate table as they are at evaluation time, whatever is
\* stored under the 15Y entry.
C12_FifteenYearIsMeanOfTenAndTwenty ==
    treasury_term = "15Y" =>
        /\ get_treasury_rate(treasury_term) = ClaimMeanRate
        /\ Returned => \A s \in Emitted : s.treasury_rate = ClaimMeanRate

\* C12 witness: scenarios were emitted at 15Y after the 10-year entry was
\* updated, with a 15Y entry that is not the mean
C12_Witness ==
    /\ Returned
    /\ treasury_term = "15Y"
    /\ Emitted # {}
    /\ treasury_rates["10Y"] # InitTreasuryRates["10Y"]
    /\ treasury_rates["15Y"] # ClaimMeanRate

(***************************************************************************)
(* Claims about the rent roll analysis                                     *)
(***************************************************************************)
RentRollReturned == analyzer_call.op = "load_rent_roll" /\ ~analyzer_call.raised

RentAnalysis == analysis_results["rent_roll"].rent_analysis

RentRollFlags == analysis_results["rent_roll"].flags

LoadedHas(c) == HasColumn(rent_roll_data.columns, c)

\* the units of the rent roll as loaded, every row of it
LoadedUnits == {rent_roll_data.rows[i] : i \in 1..Len(rent_roll_data.rows)}

\* the rent of a unit as a number, 0 for a blank
ClaimRent(u) == IF u.Rent = None THEN Zero ELSE u.Rent

\* occupancy as the rent roll analyzer is specified to decide it: by the status
\* when it names one, else by rent > 0
ClaimVacant(u) ==
    IF LoadedHas("Status") /\ u.Status = "Vacant" THEN TRUE
    ELSE IF LoadedHas("Status") /\ u.Status = "Occupied" THEN FALSE
    ELSE ~Gt(ClaimRent(u), Zero)

RECURSIVE ClaimSum(_, _)
ClaimSum(units, f) ==
    IF units = {} THEN Zero
    ELSE LET u == CHOOSE x \in units : TRUE
         IN  Add(f[u], ClaimSum(units \ {u}, f))

ClaimRents == [u \in LoadedUnits |-> ClaimRent(u)]

\* the occupied units of a type that carry a rent, and their average rent
ClaimComparators(unit_type) ==
    {u \in LoadedUnits : u.Type = unit_type /\ ~ClaimVacant(u) /\ Gt(ClaimRent(u), Zero)}

ClaimOccupiedAverage(unit_type) ==
    IF ClaimComparators(unit_type) = {} THEN Zero
    ELSE Div(ClaimSum(ClaimComparators(unit_type), ClaimRents),
             I(Cardinality(ClaimComparators(unit_type))))

ClaimImputed(u) == ClaimOccupiedAverage(u.Type)

\* C5: for a rent roll with a rent column, monthly gross_potential_income =
\* (sum of the actual rent of the units classified occupied) + (the income
\* imputed to the vacant units), the rent of a unit classified vacant not being
\* counted, and annual_gpi = 12 x gross_potential_income
C5_GpiIsOccupiedPlusImputed ==
    (RentRollReturned /\ LoadedHas("Rent")) =>
        /\ RentAnalysis.gross_potential_income
              = Add(ClaimSum({u \in LoadedUnits : ~ClaimVacant(u)}, ClaimRents),
                    RentAnalysis.vacant_unit_income)
        /\ RentAnalysis.annual_gpi = Mul(RentAnalysis.gross_potential_income, I(12))

\* C6: the income imputed to the vacant units is, for every vacant unit of the
\* rent roll (those listed with a zero or blank rent included), the average rent
\* of the occupied units of its type, and 0 when the type has none
C6_VacantUnitsImputedAtTypeAverage ==
    (RentRollReturned /\ LoadedHas("Rent") /\ LoadedHas("Type") /\ LoadedHas("Status")) =>
        RentAnalysis.vacant_unit_income
            = ClaimSum({u \in LoadedUnits : ClaimVacant(u)},
                       [u \in LoadedUnits |-> ClaimImputed(u)])

\* the units of a type that carry a positive rent, and their average rent
ClaimPriced(unit_type) ==
    {u \in LoadedUnits : u.Type = unit_type /\ Gt(ClaimRent(u), Zero)}

ClaimTypeAverage(unit_type) ==
    Div(ClaimSum(ClaimPriced(unit_type), ClaimRents), I(Cardinality(ClaimPriced(unit_type))))

ClaimFlagged(u) ==
    \E i \in 1..Len(RentRollFlags) :
        RentRollFlags[i].type = "underpriced_unit" /\ RentRollFlags[i].idx = u.idx

\* 10 x rent < 7 x average, the exclusive comparison rent < 0.7 x average
ClaimBelowThreshold(u) ==
    Lt(Mul(ClaimRent(u), I(10)), Mul(ClaimTypeAverage(u.Type), I(7)))

NoRentColumn ==
    find_column(rent_roll_data.columns, {"rent", "current rent", "monthly rent"})
        = "None"

\* C13: when the rent roll has no detectable rent column, load_rent_roll does
\* not raise and returns an analysis in which current monthly income, vacant
\* unit income, gross potential income and annual GPI are present and zero,
\* together with a flag stating that rent data is unavailable.
C13_NoRentColumnZeroedAndFlagged ==
    (analyzer_call.op = "load_rent_roll" /\ NoRentColumn) =>
        /\ ~analyzer_call.raised
        /\ \A f \in {"current_monthly_income", "vacant_unit_income",
                      "gross_potential_income", "annual_gpi"} :
              f \in DOMAIN RentAnalysis /\ RentAnalysis[f] = Zero
        /\ \E i \in 1..Len(RentRollFlags) :
              RentRollFlags[i].type \notin {"underpriced_unit", "missing_sqft"}

(***************************************************************************)
(* Claims about the underwriting summary and the expense rule set          *)
(***************************************************************************)
\* generate_underwriting_summary was the last call and returned
SummaryReturned == analyzer_call = AnalyzerCall("generate_underwriting_summary", FALSE)

\* the other income the T12 income rules extracted, 0 when they found none
ClaimOtherIncome ==
    IF "t12" \in DOMAIN analysis_results
    THEN Get(analysis_results["t12"].income_analysis, "other_income", Zero)
    ELSE Zero

\* C4: in every generated underwriting summary, net operating income is
\* EGI - total adjusted expenses, and EGI is GPI - vacancy loss + the other
\* income that the T12 income rules extracted.
C4_NoiIdentity ==
    SummaryReturned =>
        LET n == summary.noi_analysis
        IN  /\ n.net_operating_income =
                  Sub(n.effective_gross_income, n.total_expenses)
            /\ n.effective_gross_income =
                  Add(Sub(n.gross_potential_income, n.vacancy_loss), ClaimOtherIncome)

\* two applications of the rule set were given the same actual expenses and
\* the same property metadata
SameActualsAndMetadata(a, b) ==
    /\ a.expense_items = b.expense_items
    /\ a.property_age = b.property_age
    /\ a.unit_count = b.unit_count
    /\ a.is_refinance = b.is_refinance

\* ... and found the same rent roll analysis stored in the analyzer
SameRentRollAnalysis(a, b) ==
    /\ a.has_rent_roll = b.has_rent_roll
    /\ a.annual_gpi = b.annual_gpi

\* C8 as stated: over any sequence of set_property_info, load_rent_roll and
\* load_t12, two applications of the expense rules to the same actual expenses
\* and the same property metadata yield the same categories with the same
\* adjusted values.
C8_PureInActualsAndMetadata ==
    \A i, j \in 1..Len(rule_runs) :
        SameActualsAndMetadata(rule_runs[i], rule_runs[j])
            => rule_runs[i].adjusted_expenses = rule_runs[j].adjusted_expenses

\* C8 amended: two applications of the expense rules to the same actual
\* expenses, the same property metadata and the same stored rent roll
\* analysis (none, or one with the same annual GPI) yield the same categories
\* with the same adjusted values.
C8_PureGivenRentRollAnalysis ==
    \A i, j \in 1..Len(rule_runs) :
        /\ SameActualsAndMetadata(rule_runs[i], rule_runs[j])
        /\ SameRentRollAnalysis(rule_runs[i], rule_runs[j])
        => rule_runs[i].adjusted_expenses = rule_runs[j].adjusted_expenses

\* the rules ran three times, the first and the third time on the same actual
\* expenses, metadata and rent roll analysis, and on other inputs in between
C8_Witness ==
    /\ Len(rule_runs) = 3
    /\ SameActualsAndMetadata(rule_runs[1], rule_runs[3])
    /\ SameRentRollAnalysis(rule_runs[1], rule_runs[3])
    /\ rule_runs[1].has_rent_roll
    /\ rule_runs[1].expense_items # EmptyDict
    /\ ~SameActualsAndMetadata(rule_runs[1], rule_runs[2])

\* the per-unit minimum of the claim
ClaimMinimum(age) ==
    IF age < 10 THEN 500
    ELSE IF age < 20 THEN 600
    ELSE IF age < 30 THEN 700
    ELSE IF age < 40 THEN 800
    ELSE IF age < 50 THEN 900
    ELSE 1000

ClaimClamp(actual, lo, hi) == MaxR(lo, MinR(actual, hi))

ClaimClamped(run, category) ==
    ItemGet(run.adjusted_expenses, category, None) =
        ClaimClamp(Get(run.expense_items, category, Zero),
                   I(ClaimMinimum(run.property_age) * run.unit_count),
                   I(1500 * run.unit_count))

\* C9: for every age >= 0, unit count >= 1 and actual >= 0, adjusted Repairs &
\* Maintenance and adjusted Payroll are clamp(actual, m(age) x units,
\* 1500 x units) with m(age) = 500, 600, 700, 800, 900 below 10, 20, 30, 40,
\* 50 years and 1000 for every age >= 50.
C9_RepairsAndPayrollClamped ==
    \A i \in 1..Len(rule_runs) :
        rule_runs[i].property_age >= 0 /\ rule_runs[i].unit_count >= 1
            => /\ ClaimClamped(rule_runs[i], "repairs_maintenance")
               /\ ClaimClamped(rule_runs[i], "payroll")

\* the tier rate of the claim
ClaimRate(gpi) ==
    IF Le(gpi, I(500000)) THEN R(5, 100)
    ELSE IF Le(gpi, I(750000)) THEN R(45, 1000)
    ELSE IF Le(gpi, I(1000000)) THEN R(4, 100)
    ELSE IF Le(gpi, I(1500000)) THEN R(35, 1000)
    ELSE IF Le(gpi, I(2000000)) THEN R(3, 100)
    ELSE R(25, 1000)

\* C10: whenever the expense rules run with a rent roll analysis stored, the
\* adjusted management fee is rate x annual GPI with the tier rate of the
\* annual GPI (a boundary value takes the higher rate), whatever management
\* fee the T12 shows.
C10_ManagementFeeIsTierRateTimesGpi ==
    \A i \in 1..Len(rule_runs) :
        rule_runs[i].has_rent_roll =>
            ItemGet(rule_runs[i].adjusted_expenses, "management_fee", None) =
                Mul(ClaimRate(rule_runs[i].annual_gpi), rule_runs[i].annual_gpi)

\* the rules ran on an annual GPI of exactly 500,000 and a T12 whose
\* management fee differs from the 25,000 they emitted
C10_Witness ==
    /\ Len(rule_runs) = 1
    /\ rule_runs[1].has_rent_roll
    /\ rule_runs[1].annual_gpi = I(500000)
    /\ "management_fee" \in DOMAIN rule_runs[1].expense_items
    /\ rule_runs[1].expense_items["management_fee"] = I(200000)
    /\ ItemGet(rule_runs[1].adjusted_expenses, "management_fee", None) = I(25000)

\* the rationale shows the value, exactly or as '{:,.0f}' rounds it
ClaimEmbeds(rationale, x) ==
    \E i \in 1..Len(rationale.values) :
        rationale.values[i] = x \/ rationale.values[i] = Rendered(x)

\* C14: for unit count >= 1 and age >= 0, every expense category the rule set
\* emits has an adjusted value >= 0 and a non-empty rationale string, and the
\* rationale embeds both the actual value (of a category the T12 can show)
\* and the adjusted value of the category.
C14_AdjustedNonNegativeWithFullRationale ==
    \A i \in 1..Len(rule_runs) :
        LET run == rule_runs[i]
        IN  (run.unit_count >= 1 /\ run.property_age >= 0) =>
                \A k \in 1..Len(run.adjusted_expenses) :
                    LET item == run.adjusted_expenses[k]
                    IN  /\ Ge(item.amount, Zero)
                        /\ item.key \in DOMAIN run.adjustments
                        /\ run.adjustments[item.key].text # ""
                        /\ item.key \in DOMAIN expense_keywords =>
                              ClaimEmbeds(run.adjustments[item.key],
                                          Get(run.expense_items, item.key, Zero))
                        /\ ClaimEmbeds(run.adjustments[item.key], item.amount)

(***************************************************************************)
(* Claims about the underwriting summary table                             *)
(***************************************************************************)
\* generate_underwriting_summary of the output generator has returned
TableReturned == generator_call = "generate_underwriting_summary"

\* the effective gross income the generator was loaded with
ClaimEgi == Get(generator.noi_analysis, "effective_gross_income", Zero)

\* the total adjusted expenses the generator was loaded with
ClaimTotalExpenses ==
    Get(generator.expense_analysis, "total_adjusted_expenses", Zero)

\* amount / EGI x 100 for a positive EGI, 0 otherwise
ClaimPercent(amount) ==
    IF Gt(ClaimEgi, Zero) THEN Div(Mul(amount, I(100)), ClaimEgi) ELSE Zero

\* the row of the returned table with the given name
ClaimLine(name) ==
    summary_df[CHOOSE i \in 1..Len(summary_df) : summary_df[i].line_item = name]

\* C15: every line of the underwriting summary has percent_egi equal to
\* amount / EGI x 100 when EGI is positive and 0 when EGI is zero or
\* negative, and the EFFECTIVE GROSS INCOME and NET OPERATING INCOME lines
\* show the EGI the generator was given and that EGI minus total expenses
C15_PercentOfTrueEgi ==
    TableReturned =>
        /\ \A i \in 1..Len(summary_df) :
              summary_df[i].percent_egi = ClaimPercent(summary_df[i].amount)
        /\ ClaimLine("EFFECTIVE GROSS INCOME").amount = ClaimEgi
        /\ ClaimLine("NET OPERATING INCOME").amount = Sub(ClaimEgi, ClaimTotalExpenses)

\* C15, away from an EGI of exactly zero
C15_PercentWhenEgiNotZero ==
    (TableReturned /\ ClaimEgi # Zero) =>
        /\ \A i \in 1..Len(summary_df) :
              summary_df[i].percent_egi = ClaimPercent(summary_df[i].amount)
        /\ ClaimLine("EFFECTIVE GROSS INCOME").amount = ClaimEgi
        /\ ClaimLine("NET OPERATING INCOME").amount = Sub(ClaimEgi, ClaimTotalExpenses)

\* the adjusted expenses the generator was loaded with
ClaimAdjusted == Get(generator.expense_analysis, "adjusted_expenses", <<>>)

\* the line names of the categories with a non-zero adjusted amount, in order
RECURSIVE ClaimNonZeroNames(_)
ClaimNonZeroNames(items) ==
    IF items = <<>> THEN <<>>
    ELSE (IF Head(items).amount # Zero THEN <<ExpenseName[Head(items).key]>> ELSE <<>>)
         \o ClaimNonZeroNames(Tail(items))

ClaimTotalLines ==
    {"EFFECTIVE GROSS INCOME", "TOTAL OPERATING EXPENSES", "NET OPERATING INCOME"}

\* C16: the underwriting summary has its lines in the order GROSS POTENTIAL
\* INCOME, Vacancy Loss (amount <= 0), Other Income, EFFECTIVE GROSS INCOME,
\* one line per expense category with a non-zero adjusted amount and none
\* for a zero amount, TOTAL OPERATING EXPENSES, NET OPERATING INCOME last;
\* every line that is not a total carries a non-empty note
C16_LineOrderAndNotes ==
    TableReturned =>
        /\ [i \in 1..Len(summary_df) |-> summary_df[i].line_item] =
              <<"GROSS POTENTIAL INCOME", "Vacancy Loss", "Other Income",
                "EFFECTIVE GROSS INCOME">>
              \o ClaimNonZeroNames(ClaimAdjusted)
              \o <<"TOTAL OPERATING EXPENSES", "NET OPERATING INCOME">>
        /\ Le(summary_df[2].amount, Zero)
        /\ \A i \in 1..Len(summary_df) :
              summary_df[i].line_item \notin ClaimTotalLines
                  => summary_df[i].notes # ""

\* a table with a negative vacancy loss, an expense line and a category left
\* out for its zero amount
C16_Witness ==
    /\ TableReturned
    /\ Lt(summary_df[2].amount, Zero)
    /\ Len(summary_df) > 6
    /\ \E i \in 1..Len(ClaimAdjusted) : ClaimAdjusted[i].amount = Zero

\* C17: calculate_loan_scenarios leaves noi, property_value, cap_rate,
\* treasury_term, the rate table, the program constraints and the tier table
\* unchanged, and two consecutive calls with the same step-down flag and no
\* setter in between return equal lists
C17_CalculateIsPure ==
    [][engine_call'.op = "calculate_loan_scenarios" =>
           /\ UNCHANGED <<noi, property_value, cap_rate, treasury_term,
                          treasury_rates, loan_types, tier_pricing>>
           /\ (/\ engine_call.op = "calculate_loan_scenarios"
               /\ engine_call.step_down_prepay = engine_call'.step_down_prepay)
                  => /\ engine_call'.raised = engine_call.raised
                     /\ engine_call'.scenarios = engine_call.scenarios]_vars

\* a call that returned scenarios under an updated rate table, from which the
\* next call is made
C17_Witness ==
    /\ Returned
    /\ Len(engine_call.scenarios) > 0
    /\ treasury_rates # InitTreasuryRates

\* the clamp of the admin claim on one run of the expense rules
ClaimAdminClamped(run) ==
    LET adjusted == ItemGet(run.adjusted_expenses, "admin_fees", None)
        actual == Get(run.expense_items, "admin_fees", Zero)
        cap == I(400 * run.unit_count)
    IN  /\ Ge(adjusted, I(1000))
        /\ Le(adjusted, cap)
        /\ (Ge(actual, I(1000)) /\ Le(actual, cap)) => adjusted = actual

\* C18: for every actual >= 0 and unit count >= 1, adjusted admin fees are
\* clamp(actual, 1000, 400 x units): never below 1,000, never above
\* 400 x units, and equal to the actual when it lies between the two
C18_AdminFeesClamped ==
    \A i \in 1..Len(rule_runs) :
        (/\ rule_runs[i].unit_count >= 1
         /\ Ge(Get(rule_runs[i].expense_items, "admin_fees", Zero), Zero))
            => ClaimAdminClamped(rule_runs[i])

\* C18, where the cap of 400 x units is not below the minimum of 1,000
C18_AdminFeesClampedFromThreeUnits ==
    \A i \in 1..Len(rule_runs) :
        rule_runs[i].unit_count >= 3 => ClaimAdminClamped(rule_runs[i])

\* max(5% x annual GPI, actual vacancy) on one run of the expense rules, the
\* annual GPI read from the stored rent roll analysis
ClaimVacancy(run) ==
    MaxR(Mul(R(5, 100), IF run.has_rent_roll THEN run.annual_gpi ELSE Zero),
         Get(run.expense_items, "vacancy", Zero))

\* C19: whenever the expense rules run, in any order of load_rent_roll and
\* load_t12, the adjusted expenses contain a vacancy value equal to
\* max(5% x annual GPI, actual vacancy), the actual being 0 if not found
C19_VacancyAlwaysAdjusted ==
    \A i \in 1..Len(rule_runs) :
        ItemGet(rule_runs[i].adjusted_expenses, "vacancy", None)
            = ClaimVacancy(rule_runs[i])

\* C19, for the runs that find a rent roll analysis stored
C19_VacancyAdjustedAfterRentRoll ==
    \A i \in 1..Len(rule_runs) :
        rule_runs[i].has_rent_roll
            => ItemGet(rule_runs[i].adjusted_expenses, "vacancy", None)
                   = ClaimVacancy(rule_runs[i])

\* the tier adjustments of the spread claim, in basis points
ClaimTierAdjustment ==
    ("Tier 2" :> 0) @@ ("Tier 3" :> -25) @@ ("Tier 4" :> -50)

\* the spread the claim gives a scenario, in basis points
ClaimSpread(s) ==
    IF s.loan_type = "fannie_freddie"
    THEN (IF Ge(s.loan_amount, I(6000000)) THEN 150 ELSE 200)
         + ClaimTierAdjustment[s.tier_name]
         + (IF engine_call.step_down_prepay THEN 50 ELSE 0)
    ELSE IF s.loan_type = "cmbs" THEN 300
    ELSE 150

\* the treasury rate for the configured term
ClaimTreasuryRate ==
    IF treasury_term = "15Y"
    THEN Div(Add(treasury_rates["10Y"], treasury_rates["20Y"]), I(2))
    ELSE treasury_rates[treasury_term]

\* C20: every emitted scenario has the spread of its program: Fannie/Freddie
\* 150 bps from a loan amount of 6,000,000 and 200 bps below, plus the tier
\* adjustment (0, -25, -50), plus 50 bps iff step-down prepay was requested;
\* CMBS 300 bps and Debt Fund 150 bps with or without step-down; and an
\* interest rate of the treasury rate for the configured term + spread / 100
C20_SpreadAndInterestRate ==
    Returned =>
        \A s \in Emitted :
            /\ s.spread = ClaimSpread(s)
            /\ s.interest_rate = Add(ClaimTreasuryRate, R(ClaimSpread(s), 100))

\* a step-down call that returned a Fannie/Freddie scenario of exactly
\* 6,000,000 at 200 bps next to a CMBS scenario
C20_Witness ==
    /\ Returned
    /\ engine_call.step_down_prepay
    /\ \E s \in Emitted :
          /\ s.loan_type = "fannie_freddie"
          /\ s.loan_amount = I(6000000)
          /\ s.spread = 200
    /\ \E s \in Emitted : s.loan_type = "cmbs" /\ s.spread = 300

\* the ceilings of a program of the claim, in the order LTV, DSCR, Debt Yield
ClaimCeilings(p) ==
    << [name |-> "LTV", amount |-> Mul(property_value, p.max_ltv)],
       [name |-> "DSCR", amount |-> Div(noi, p.min_dscr)],
       [name |-> "Debt Yield",
        amount |-> IF p.min_dy = None THEN Inf ELSE Div(noi, p.min_dy)] >>

\* C21: for every emitted scenario constraint_binding names a ceiling whose
\* value equals loan_amount, and of the ceilings that tie for the minimum it
\* names the first in the order LTV, DSCR, Debt Yield
C21_BindingIsFirstMinimum ==
    Returned =>
        \A s \in Emitted :
            LET c == ClaimCeilings(ClaimProgramOf(s))
            IN  \E i \in 1..3 :
                    /\ c[i].name = s.constraint_binding
                    /\ c[i].amount = s.loan_amount
                    /\ \A j \in 1..3 : Le(c[i].amount, c[j].amount)
                    /\ \A j \in 1..(i - 1) : c[j].amount # c[i].amount

\* an emitted scenario whose LTV and DSCR ceilings tie for the minimum
C21_Witness ==
    /\ Returned
    /\ \E s \in Emitted :
          LET c == ClaimCeilings(ClaimProgramOf(s))
          IN  /\ c[1].amount = c[2].amount
              /\ c[1].amount = s.loan_amount
              /\ s.constraint_binding = "LTV"

\* the per-unit-type breakdown of the stored rent roll analysis
UnitAnalysis == analysis_results["rent_roll"].unit_analysis

\* C22: for every unit type of a rent roll, the average rent the per-unit-type
\* breakdown reports is the mean rent over the occupied units of that type
\* only; the rents of the type's vacant units do not enter it
C22_TypeAverageOverOccupiedOnly ==
    (RentRollReturned /\ LoadedHas("Rent") /\ LoadedHas("Type")) =>
        \A i \in 1..Len(UnitAnalysis) :
            ClaimComparators(UnitAnalysis[i].unit_type) # {}
                => UnitAnalysis[i].avg_rent
                       = ClaimOccupiedAverage(UnitAnalysis[i].unit_type)

\* C22, for the types none of whose units is vacant
C22_TypeAverageWithoutVacantUnits ==
    (RentRollReturned /\ LoadedHas("Rent") /\ LoadedHas("Type")) =>
        \A i \in 1..Len(UnitAnalysis) :
            (\A u \in LoadedUnits :
                u.Type = UnitAnalysis[i].unit_type =>
                    ~ClaimVacant(u) /\ Gt(ClaimRent(u), Zero))
                => UnitAnalysis[i].avg_rent
                       = ClaimOccupiedAverage(UnitAnalysis[i].unit_type)

\* occupancy of a unit decided on its own row: by the status when it holds an
\* occupied or a vacant keyword, else by rent > 0
ClaimOccupied(u) ==
    IF LoadedHas("Status") /\ u.Status \in {"Occupied", "Rented"} THEN TRUE
    ELSE IF LoadedHas("Status") /\ u.Status = "Vacant" THEN FALSE
    ELSE Gt(ClaimRent(u), Zero)

\* C23: occupancy is decided per row (status keywords, else rent > 0);
\* occupied_units counts exactly the units so classified occupied, and
\* occupied_units + vacant_units = total_units with
\* 0 <= occupied_units <= total_units
C23_OccupiedCountedPerRow ==
    (RentRollReturned /\ LoadedHas("Rent")) =>
        /\ RentAnalysis.occupied_units
              = I(Cardinality({u \in LoadedUnits : ClaimOccupied(u)}))
        /\ Add(RentAnalysis.occupied_units, RentAnalysis.vacant_units)
              = RentAnalysis.total_units
        /\ Ge(RentAnalysis.occupied_units, Zero)
        /\ Le(RentAnalysis.occupied_units, RentAnalysis.total_units)

\* C23, without the count per row: the three counts add up and are in range
C23_CountsAddUp ==
    (RentRollReturned /\ LoadedHas("Rent")) =>
        /\ Add(RentAnalysis.occupied_units, RentAnalysis.vacant_units)
              = RentAnalysis.total_units
        /\ Ge(RentAnalysis.occupied_units, Zero)
        /\ Le(RentAnalysis.occupied_units, RentAnalysis.total_units)

(***************************************************************************)
(* Claims about the table normalizer                                       *)
(***************************************************************************)
\* _clean_dataframe returned from its threshold step
Thresholded ==
    /\ processor_call.op = "clean_dataframe"
    /\ ~processor_call.raised
    /\ ~Empty(processor_call.thresholded)

\* the row is among the rows of the result
ClaimKept(row) ==
    \E i \in 1..Len(processor_call.result.rows) :
        processor_call.result.rows[i].idx = row.idx

\* at least 30% of the columns are populated in the row
ClaimPopulated(row) ==
    10 * NonNull(row.cells) >= 3 * Len(processor_call.thresholded.columns)

\* C24: the table normalizer keeps a row if and only if at least 30% of the
\* table's columns are populated in that row, for every column count >= 1
C24_RowKeptIffThirtyPercent ==
    Thresholded =>
        \A i \in 1..Len(processor_call.thresholded.rows) :
            ClaimKept(processor_call.thresholded.rows[i])
                <=> ClaimPopulated(processor_call.thresholded.rows[i])

\* C24, in the direction that holds: a row with at least 30% of the columns
\* populated is kept
C24_PopulatedRowKept ==
    Thresholded =>
        \A i \in 1..Len(processor_call.thresholded.rows) :
            ClaimPopulated(processor_call.thresholded.rows[i])
                => ClaimKept(processor_call.thresholded.rows[i])

ClaimTier(tier_name) ==
    {s \in Emitted : s.loan_type = "fannie_freddie" /\ s.tier_name = tier_name}

C27_RaisingSetterLeavesPropertyData ==
    [][(engine_call'.op = "set_property_data" /\ engine_call'.raised)
           => UNCHANGED <<noi, property_value, cap_rate>>]_vars

\* C27, for the two derived fields: the raising call leaves property_value and
\* cap_rate as they were
C27_RaisingSetterLeavesValueAndCapRate ==
    [][(engine_call'.op = "set_property_data" /\ engine_call'.raised)
           => UNCHANGED <<property_value, cap_rate>>]_vars

\* the adjusted expenses of the stored T12 analysis
ClaimStoredAdjusted == analysis_results["t12"].expense_analysis.adjusted_expenses

\* the sum of the adjusted amounts of the categories other than vacancy
ClaimNonVacancyExpenses ==
    SumItems(SelectSeq(ClaimStoredAdjusted, LAMBDA item : item.key # "vacancy"))

\* the lines of the summary table that show vacancy
ClaimVacancyLines ==
    {i \in 1..Len(summary_df) : summary_df[i].line_item \in {"Vacancy Loss", "Vacancy"}}

\* C28: in the NOI the analyzer reports after load_rent_roll and load_t12 the
\* adjusted vacancy is deducted from GPI exactly once: net_operating_income =
\* annual GPI - adjusted vacancy - sum of the adjusted amounts of all
\* non-vacancy categories, and the summary shows vacancy on exactly one line
C28_VacancyDeductedOnce ==
    /\ (SummaryReturned /\ HasRentRoll /\ "t12" \in DOMAIN analysis_results) =>
           summary.noi_analysis.net_operating_income
               = Sub(Sub(annual_gpi, ItemGet(ClaimStoredAdjusted, "vacancy", Zero)),
                     ClaimNonVacancyExpenses)
    /\ (TableReturned /\ HasRentRoll /\ "t12" \in DOMAIN analysis_results) =>
           Cardinality(ClaimVacancyLines) = 1

\* C28 with the vacancy taken twice: what the analyzer reports
C28_VacancyDeductedTwice ==
    (SummaryReturned /\ HasRentRoll /\ "t12" \in DOMAIN analysis_results) =>
        summary.noi_analysis.net_operating_income
            = Sub(Sub(annual_gpi,
                      Mul(I(2), ItemGet(ClaimStoredAdjusted, "vacancy", Zero))),
                  ClaimNonVacancyExpenses)

\* C29: for a fixed NOI and property value the emitted (program, tier) pairs
\* and each one's loan_amount, ltv, debt_yield and constraint_binding are the
\* same for every treasury term and for both values of the step-down flag
C29_SizingIndependentOfPricing ==
    (Returned /\ held # NoSizing) => Sizing(engine_call.scenarios) = held.sizing

\* a list returned under another term and the other flag than the held one
C29_Witness ==
    /\ Returned
    /\ Emitted # {}
    /\ held # NoSizing
    /\ held.term # treasury_term
    /\ held.step_down_prepay # engine_call.step_down_prepay


(***************************************************************************)
(* C30: a DELETE /api/cleanup request interleaved with the background task *)
(***************************************************************************)
\* the task of the session ended with an exception that left its except block
TaskUnhandled(id) == tasks[id].pc = "unhandled"

\* a session a DELETE request removed is a key of processing_sessions again
PutBack(id) == id \in cleaned /\ id \in processing_sessions

\* a request can observe the session with status 'completed' and no results
CompletedWithoutResults(id) ==
    /\ id \in processing_sessions
    /\ status_objects[id].status = "completed"
    /\ status_objects[id].results = "None"

\* C30: however a DELETE /api/cleanup/{session_id} request interleaves with
\* the steps of the session's background task, the task ends without an
\* unhandled exception, the deleted session is not put back into
\* processing_sessions, and a session that requests can observe with status
\* 'completed' has results
C30_CleanupDuringProcessingIsSafe ==
    \A id \in SessionIds :
        /\ ~TaskUnhandled(id)
        /\ ~PutBack(id)
        /\ ~CompletedWithoutResults(id)

\* the two clauses of C30 about the session store alone
C30_DeletedSessionStaysDeleted ==
    \A id \in SessionIds : ~PutBack(id) /\ ~CompletedWithoutResults(id)

\* a task suspended at its first await whose session a DELETE request removed
C30_DeletedWhileSuspended ==
    \E id \in SessionIds :
        /\ id \in cleaned
        /\ tasks[id].pc = "await"
        /\ tasks[id].at = 1

====
